---- MODULE Spec2Model ----
(***************************************************************************)
(* Radiosity solvers of urbanMicroclimateFoam: the long-wave solver        *)
(* radiationModels::viewFactorSky and the short-wave solver                *)
(* solarLoad::directAndDiffuse.  One solver instance is followed through   *)
(* construction (initialise), its radiation updates (calculate) on every   *)
(* process of the run, and restarts of the run that find the factorization *)
(* file of the previous run on disk.                                       *)
(*                                                                         *)
(* Scalars are exact rationals <<numerator, denominator>>, extended with   *)
(* the IEEE values the code can produce by a division by zero:             *)
(* <<0,0>> is NaN, <<1,0>> is +inf and <<-1,0>> is -inf.                   *)
(***************************************************************************)
EXTENDS Integers, Sequences, FiniteSets, TLC

(***************************************************************************)
(* scalar arithmetic                                                       *)
(***************************************************************************)
RECURSIVE Gcd(_, _)
Gcd(a, b) == IF b = 0 THEN a ELSE Gcd(b, a % b)

AbsInt(n) == IF n < 0 THEN -n ELSE n

SignInt(n) == IF n < 0 THEN -1 ELSE IF n > 0 THEN 1 ELSE 0

NaN == <<0, 0>>

Inf(s) == <<s, 0>>

Zero == <<0, 1>>

One == <<1, 1>>

IsNaN(a) == a[2] = 0 /\ a[1] = 0

IsInf(a) == a[2] = 0 /\ a[1] # 0

\* the scalar n/d, d # 0, in lowest terms with a positive denominator
Rat(n, d) ==
    LET g == Gcd(AbsInt(n), AbsInt(d))
        s == IF d < 0 THEN -1 ELSE 1
    IN  <<(s * n) \div g, (s * d) \div g>>

RNeg(a) == <<-a[1], a[2]>>

RAdd(a, b) ==
    IF IsNaN(a) \/ IsNaN(b) THEN NaN
    ELSE IF IsInf(a) /\ IsInf(b) THEN (IF a[1] = b[1] THEN a ELSE NaN)
    ELSE IF IsInf(a) THEN a
    ELSE IF IsInf(b) THEN b
    ELSE LET g == Gcd(a[2], b[2])
         IN  Rat(a[1] * (b[2] \div g) + b[1] * (a[2] \div g),
                 (a[2] \div g) * b[2])

RSub(a, b) == RAdd(a, RNeg(b))

RMul(a, b) ==
    IF IsNaN(a) \/ IsNaN(b) THEN NaN
    ELSE IF IsInf(a) \/ IsInf(b)
         THEN (IF a[1] = 0 \/ b[1] = 0 THEN NaN
               ELSE Inf(SignInt(a[1]) * SignInt(b[1])))
    ELSE LET g1 == Gcd(AbsInt(a[1]), b[2])
             g2 == Gcd(AbsInt(b[1]), a[2])
         IN  Rat((a[1] \div g1) * (b[1] \div g2),
                 (a[2] \div g2) * (b[2] \div g1))

RDiv(a, b) ==
    IF IsNaN(a) \/ IsNaN(b) THEN NaN
    ELSE IF IsInf(b) THEN (IF IsInf(a) THEN NaN ELSE Zero)
    ELSE IF IsInf(a) THEN (IF b[1] < 0 THEN RNeg(a) ELSE a)
    ELSE IF b[1] = 0 THEN (IF a[1] = 0 THEN NaN ELSE Inf(SignInt(a[1])))
    ELSE RMul(a, IF b[1] < 0 THEN <<-b[2], -b[1]>> ELSE <<b[2], b[1]>>)

\* a < b; every comparison with NaN is false
RLt(a, b) ==
    IF IsNaN(a) \/ IsNaN(b) THEN FALSE
    ELSE IF IsInf(a) /\ IsInf(b) THEN a[1] < b[1]
    ELSE IF IsInf(a) THEN a[1] < 0
    ELSE IF IsInf(b) THEN b[1] > 0
    ELSE LET g == Gcd(a[2], b[2])
         IN  a[1] * (b[2] \div g) < b[1] * (a[2] \div g)

RGt(a, b) == RLt(b, a)

RGe(a, b) == ~IsNaN(a) /\ ~IsNaN(b) /\ ~RLt(a, b)

REq(a, b) == ~IsNaN(a) /\ ~IsNaN(b) /\ a = b

RMag(a) == <<AbsInt(a[1]), a[2]>>

\* sum of f[0] .. f[n-1], accumulated in index order
RECURSIVE RSum(_, _)
RSum(f, n) == IF n = 0 THEN Zero ELSE RAdd(RSum(f, n - 1), f[n - 1])

(***************************************************************************)
(* dense LU (OpenFOAM scalarMatrices: LUDecompose, LUBacksubstitute,       *)
(* LUsolve).  A matrix is a function [0..m-1 -> [0..m-1 -> scalar]].       *)
(***************************************************************************)
\* stands for OpenFOAM's `small`, the value that replaces a zero pivot; no
\* case of the model reaches a zero pivot
small == <<1, 1000000000>>

ZeroMatrix(m) == [i \in 0..(m - 1) |-> [j \in 0..(m - 1) |-> Zero]]

\* largest magnitude of row i, scanned with `mag(x) > largestCoeff`
RECURSIVE RowLargest(_, _, _)
RowLargest(row, n, largest) ==
    IF n = 0 THEN largest
    ELSE LET l == RowLargest(row, n - 1, largest)
         IN  IF RGt(RMag(row[n - 1]), l) THEN RMag(row[n - 1]) ELSE l

\* the pivot search of column j over rows i..m-1:
\* `if ((temp = vv[i]*mag(sum)) >= largestCoeff) { largestCoeff = temp; iMax = i; }`
RECURSIVE PivotScan(_, _, _, _, _, _)
PivotScan(col, vv, i, m, largest, iMax) ==
    IF i >= m THEN iMax
    ELSE LET temp == RMul(vv[i], RMag(col[i]))
         IN  IF RGe(temp, largest)
             THEN PivotScan(col, vv, i + 1, m, temp, i)
             ELSE PivotScan(col, vv, i + 1, m, largest, iMax)

\* Bind(v, Body) is Body(v) with v evaluated once
Bind(v, Body(_)) == CHOOSE r \in {Body(x) : x \in {y \in {v} : y = y}} : TRUE

\* the entries of column j after the two inner loops of the decomposition:
\* beta[i] = M[i][j] - sum over k < min(i, j) of M[i][k]*beta[k]
RECURSIVE CroutColumn(_, _, _, _, _)
CroutColumn(M, j, m, i, beta) ==
    IF i >= m THEN beta
    ELSE LET lim == IF i < j THEN i ELSE j
             bi == RSub(M[i][j],
                        RSum([k \in 0..(m - 1) |->
                                 IF k < lim THEN RMul(M[i][k], beta[k]) ELSE Zero],
                             lim))
         IN  CroutColumn(M, j, m, i + 1, [beta EXCEPT ![i] = bi])

\* row exchange, zero-pivot replacement and scaling of column j
LUPivot(st, beta, iMax, j, m) ==
    LET M1 == [i \in 0..(m - 1) |-> [st.M[i] EXCEPT ![j] = beta[i]]]
        zeroPivot == REq(M1[iMax][j], Zero)
        pivot == IF zeroPivot THEN small ELSE M1[iMax][j]
        rDiag == RDiv(One, pivot)
    IN  [M |-> [i \in 0..(m - 1) |->
                  IF i = j THEN [M1[iMax] EXCEPT ![j] = pivot]
                  ELSE LET row == IF i = iMax THEN M1[j] ELSE M1[i]
                       IN  IF i > j /\ j # m - 1
                           THEN [row EXCEPT ![j] = RMul(row[j], rDiag)]
                           ELSE row],
         vv |-> [st.vv EXCEPT ![iMax] = st.vv[j]],
         piv |-> [st.piv EXCEPT ![j] = iMax],
         smallPivot |-> st.smallPivot \/ zeroPivot]

\* one column of the Crout decomposition
LUColumn(st, j, m) ==
    Bind(CroutColumn(st.M, j, m, 0, [i \in 0..(m - 1) |-> Zero]),
         LAMBDA beta :
            Bind(PivotScan(beta, st.vv, j, m, Zero, 0),
                 LAMBDA iMax : LUPivot(st, beta, iMax, j, m)))

RECURSIVE LUColumns(_, _, _)
LUColumns(st, j, m) ==
    IF j >= m THEN st
    ELSE Bind(LUColumn(st, j, m), LAMBDA st1 : LUColumns(st1, j + 1, m))

\* LUDecompose(matrix, pivotIndices): fatal "Singular matrix" when a row has
\* no entry of magnitude > 0, otherwise the factors and the pivot indices
LUDecompose(matrix, m) ==
    Bind([i \in 0..(m - 1) |-> RowLargest(matrix[i], m, Zero)],
         LAMBDA largest :
            IF \E i \in 0..(m - 1) : REq(largest[i], Zero)
            THEN [fatal |-> TRUE]
            ELSE Bind([M |-> matrix,
                       vv |-> [i \in 0..(m - 1) |-> RDiv(One, largest[i])],
                       piv |-> [i \in 0..(m - 1) |-> 0],
                       smallPivot |-> FALSE],
                      LAMBDA st0 :
                         Bind(LUColumns(st0, 0, m),
                              LAMBDA r : [fatal |-> FALSE, M |-> r.M,
                                          piv |-> r.piv,
                                          smallPivot |-> r.smallPivot])))

\* forward substitution of LUBacksubstitute, rows i..m-1
RECURSIVE LUForward(_, _, _, _, _, _)
LUForward(lu, piv, b, i, ii, m) ==
    IF i >= m THEN b
    ELSE LET ip == piv[i]
             sum0 == b[ip]
             b1 == [b EXCEPT ![ip] = b[i]]
             sum1 == IF ii # 0
                     THEN RSub(sum0,
                               RSum([k \in 0..(m - 1) |->
                                        IF k + (ii - 1) < i
                                        THEN RMul(lu[i][k + (ii - 1)], b1[k + (ii - 1)])
                                        ELSE Zero],
                                    i - (ii - 1)))
                     ELSE sum0
             ii1 == IF ii # 0 THEN ii
                    ELSE IF sum0 # Zero THEN i + 1 ELSE 0
         IN  Bind([b1 EXCEPT ![i] = sum1],
                  LAMBDA b2 : LUForward(lu, piv, b2, i + 1, ii1, m))

\* back substitution of LUBacksubstitute, rows i..0
RECURSIVE LUBackward(_, _, _, _)
LUBackward(lu, b, i, m) ==
    IF i < 0 THEN b
    ELSE LET sum == RSub(b[i],
                         RSum([k \in 0..(m - 1) |->
                                  IF i + 1 + k < m
                                  THEN RMul(lu[i][i + 1 + k], b[i + 1 + k])
                                  ELSE Zero],
                              m - 1 - i))
         IN  Bind([b EXCEPT ![i] = RDiv(sum, lu[i][i])],
                  LAMBDA b2 : LUBackward(lu, b2, i - 1, m))

\* LUBacksubstitute(luMatrix, pivotIndices, sourceSol)
LUBacksubstitute(lu, piv, source, m) ==
    Bind(source,
         LAMBDA b : Bind(LUForward(lu, piv, b, 0, 0, m),
                         LAMBDA y : LUBackward(lu, y, m - 1, m)))

\* LUsolve(matrix, sourceSol): decompose a local copy and back-substitute
LUsolve(matrix, source, m) ==
    Bind(LUDecompose(matrix, m),
         LAMBDA d : IF d.fatal THEN [fatal |-> TRUE]
                    ELSE Bind(LUBacksubstitute(d.M, d.piv, source, m),
                              LAMBDA x : [fatal |-> FALSE, q |-> x]))

(***************************************************************************)
(* bounds of the model                                                     *)
(***************************************************************************)
\* processes of a run (mesh partitions)
MaxProcs == 2

\* radiative elements (coarse faces) of a case, summed over the partitions
MaxFaces == 2

\* radiation updates (calculate() calls) per run
MaxCalls == 2

\* runs of the case; every run after the first is a restart
MaxRuns == 2

(***************************************************************************)
(* lists are functions over 0..n-1, as the code indexes them               *)
(***************************************************************************)
Size(l) == Cardinality(DOMAIN l)

EmptyList == [i \in {} |-> 0]

\* an autoPtr that has not been reset
Unset == EmptyList

Solvers == {"viewFactorSky", "directAndDiffuse"}

\* Pstream::master()
IsMaster(p) == p = 0

(***************************************************************************)
(* globalIndex: the flat numbering of the coarse faces of all partitions   *)
(***************************************************************************)
RECURSIVE SumTo(_, _)
SumTo(f, n) == IF n = 0 THEN 0 ELSE SumTo(f, n - 1) + f[n - 1]

\* faulty variant: every process numbers its elements from zero
offsetZero(nLocal, proci) == 0

\* globalIndex::offset(proci): the local sizes of the lower processes
offset(nLocal, proci) == SumTo(nLocal, proci)

\* globalIndex::toGlobal(proci, i)
toGlobal(nLocal, proci, i) == offset(nLocal, proci) + i

\* globalIndex::size()
globalSize(nLocal) == SumTo(nLocal, Size(nLocal))

(***************************************************************************)
(* the case on disk: decomposition, view factors and visible-neighbour     *)
(* lists written by the view-factor generator, coefficient tables written  *)
(* by solarRayTracingGen, and the solver dictionary                        *)
(***************************************************************************)
\* local coarse-face counts of nProcs partitions: at most MaxFaces in total
Decomps(nProcs) ==
    {d \in [0..(nProcs - 1) -> 0..MaxFaces] :
        /\ globalSize(d) >= 1
        /\ globalSize(d) <= MaxFaces
        /\ \A p \in 1..(nProcs - 1) : d[p] >= 1}

\* visibility patterns of the generated geometries:
\*   others  element g sees every other element
\*   cavity  element g sees every element, itself included
Patterns == {"others", "cavity"}

Visible(pattern, N, g) ==
    IF pattern = "others" THEN (0..(N - 1)) \ {g}
    ELSE 0..(N - 1)

\* the elements of a set of global ids in ascending order
RECURSIVE Ascending(_)
Ascending(S) ==
    IF S = {} THEN EmptyList
    ELSE LET mx == CHOOSE x \in S : \A y \in S : y <= x
             rest == Ascending(S \ {mx})
         IN  [i \in 0..Size(rest) |-> IF i < Size(rest) THEN rest[i] ELSE mx]

\* the view factor of every visible neighbour of an element that sees n
\* elements: the rows of a cavity sum to 1, every other row to 9/100
ViewFactor(pattern, n) ==
    IF pattern = "cavity" THEN Rat(1, n) ELSE Rat(9, 100 * n)

\* time stamps of constant/sunPosVector
sunPosVector_x == [i \in 0..1 |-> Rat(2 * i, 1)]

MakeCase(nProcs, nLocal, pattern, smoothing, constant) ==
    LET N == globalSize(nLocal)
        P == 0..(nProcs - 1)
    IN  [nProcs |-> nProcs,
         nLocal |-> nLocal,
         pattern |-> pattern,
         globalFaceFaces |->
            [p \in P |-> [k \in 0..(nLocal[p] - 1) |->
                Ascending(Visible(pattern, N, toGlobal(nLocal, p, k)))]],
         F |->
            [p \in P |-> [k \in 0..(nLocal[p] - 1) |->
                [i \in 0..(Cardinality(Visible(pattern, N, toGlobal(nLocal, p, k))) - 1)
                    |-> ViewFactor(pattern,
                            Cardinality(Visible(pattern, N, toGlobal(nLocal, p, k))))]]],
         sunskyMap |->
            [p \in P |-> [k \in 0..(nLocal[p] - 1) |-> toGlobal(nLocal, p, k)]],
         sunViewCoeff |->
            [p \in P |-> [v \in DOMAIN sunPosVector_x |->
                [k \in 0..(nLocal[p] - 1) |->
                    Rat(4 * v + 2 * toGlobal(nLocal, p, k), 1)]]],
         skyViewCoeff |->
            [p \in P |-> [v \in DOMAIN sunPosVector_x |->
                [k \in 0..(nLocal[p] - 1) |-> Rat(1 + v, 1)]]],
         smoothing |-> smoothing,
         constant |-> constant]

Cases ==
    UNION {{MakeCase(n, d, pat, sm, co) :
                d \in Decomps(n), pat \in Patterns,
                sm \in BOOLEAN, co \in BOOLEAN} : n \in 1..MaxProcs}

(***************************************************************************)
(* the boundary fields the other solvers hand to a radiation update,       *)
(* area-averaged per coarse face and addressed by global id.  Temperature  *)
(* is held in units of sigma^(-1/4) = 64.8 K, which makes sigma 1.         *)
(***************************************************************************)
sigma == Rat(1, 1)

\* the boundary conditions offered to a radiation update: thermal state,
\* optical properties and simulation time
Scenarios ==
    {<<"uniform", "black", Rat(0, 1)>>,
     <<"varied", "grey", Rat(1, 1)>>}

\* number of faces whose surface is not black in a "grey" scenario: the
\* coupled system is kept to two unknowns so that the exact quotients of
\* its solution stay within the integer range
GreyFaces(N) == IF N <= 2 THEN N ELSE 1

MakeFields(N, thermal, optical, t) ==
    [T4 |-> [g \in 0..(N - 1) |->
                IF thermal = "uniform" THEN Rat(1, 1) ELSE Rat(1 + g, 1)],
     Ho |-> [g \in 0..(N - 1) |->
                IF thermal = "uniform" THEN Zero
                ELSE IF g % 2 = 0 THEN Rat(-1, 1) ELSE Rat(1, 1)],
     \* emissivity of the long-wave patches, albedo of the short-wave ones
     E |-> [g \in 0..(N - 1) |->
                IF optical = "black" \/ g >= GreyFaces(N) THEN One
                ELSE IF g = 0 THEN Rat(1, 2) ELSE Rat(1, 4)],
     A |-> [g \in 0..(N - 1) |->
                IF optical = "black" \/ g >= GreyFaces(N) THEN Zero
                ELSE IF g = 0 THEN Rat(1, 2) ELSE Rat(1, 4)],
     t |-> t]

FieldSets(N) == {MakeFields(N, sc[1], sc[2], sc[3]) : sc \in Scenarios}

(***************************************************************************)
(* state                                                                   *)
(***************************************************************************)
VARIABLES
    solver,              \* the solver class of the instance followed
    run,                 \* number of the current run of the case
    case,                \* the case on disk read by the current run
    fileCLU,             \* processor0/CLU_qr or processor0/CLU_qs
    timeIndex,           \* radiation updates requested by the time loop
    fields,              \* boundary fields at the current time
    pc,                  \* position of every process
    calls,               \* calculate() calls started by every process
    nLocalCoarseFaces_,
    totalNCoarseFaces_,
    Fmatrix_,
    CLU_,
    pivotIndices_,
    constOptical_,       \* constEmissivity_ / constAlbedo_
    iterCounter_,
    skyViewCoeffGlobal_,
    sunViewCoeffGlobal_,
    gath,                \* T4, E/A and qrExt/qsExt of the running call
    q,                   \* the flux vector q of the running or last call
    qBf,                 \* boundary values of qr_ / qs_ per local coarse face
    ev,                  \* file I/O, messages and solver calls of the last call
    factFrom             \* how CLU_ of the coordinating process was obtained

\* the state of a run of the radiosity solvers
radVars == <<solver, run, case, fileCLU, timeIndex, fields, pc, calls,
             nLocalCoarseFaces_, totalNCoarseFaces_, Fmatrix_, CLU_,
             pivotIndices_, constOptical_, iterCounter_, skyViewCoeffGlobal_,
             sunViewCoeffGlobal_, gath, q, qBf, ev, factFrom>>

\* the sun-position table and the coefficients interpolated from it, as one
\* radiation update of directAndDiffuse and of simplifiedVegetation sees them
VARIABLES
    sunPosVector,        \* time stamps of constant/sunPosVector
    stamped,             \* coefficient tables, one value per time stamp
    timeValue,           \* time.value()
    ddOut,               \* lo, hi, hi_fraction and values of directAndDiffuse
    vegOut               \* lo, hi, hi_fraction and values of simplifiedVegetation

sunVars == <<sunPosVector, stamped, timeValue, ddOut, vegOut>>

\* a run of solarRayTracingGen on the partitions of a case
VARIABLES
    rayCase,             \* the case on disk read by the generator
    rpc,                 \* position of every process in main()
    vectorId,            \* sun direction of the visibility pass of a process
    rays,                \* rayStartFace, rayEndFace and their FINE variants
    nVisibleFaceFacesListFINE,
    written              \* sunViewCoeff, skyViewCoeff, solarLoadFineFaces on disk

rayVars == <<rayCase, rpc, vectorId, rays, nVisibleFaceFacesListFINE, written>>

\* the leaf and grass temperature iterations
VARIABLES
    vegCase,    \* the model that iterates, the air temperature, the factors
    vpc,        \* position in the iteration loop
    iterI,      \* the loop counter i
    Tl_,        \* leaf (Tl_) or grass (Tg) temperature per cell
    new_Tl,     \* new_Tl / Tg_new per cell
    rawTl,      \* the candidates of the iteration before bounding
    boundTl,    \* boundTl / boundTg after the reduce
    warned,     \* number of "Warning, bounding ..." lines printed
    maxRelError,    \* maxRelError of the last convergence test
    vegInfo     \* the Info lines printed about the iteration

vegVars == <<vegCase, vpc, iterI, Tl_, new_Tl, rawTl, boundTl, warned,
             maxRelError, vegInfo>>

\* calculate() of viewFactorSky seen from the fine faces of one selected
\* patch per process
VARIABLES
    fineCase,       \* finalAgglom_, patchFaceMap and T of every process
    fpc,            \* position of every process in calculate()
    T4ave,          \* T4ave of the patch, per process
    qFine,          \* q after the solve and the listCombine calls
    qrp,            \* qrBf[patchID] per process, before relaxation
    nWrites,        \* how often qrp[facei] was assigned
    globCoarseId,   \* the running coarse counter of the scatter loop
    overrun         \* the process has read or written past a list

fineVars == <<fineCase, fpc, T4ave, qFine, qrp, nWrites, globCoarseId, overrun>>

\* the time loop: the Time object, the simpleControlFluid object, the grass
\* or vegetation model and the coupled patch field of a solid region
VARIABLES
    tpc,            \* which of the objects the behaviour follows
    runTime,        \* value, timeIndex and deltaT of the Time object
    simpleControl,  \* initialised_ and the record of the calls of run()
    plantModel,     \* grass_/vegetation_, solverFreq_, firstIter_
    coupledPatch    \* qrNbr, qsNbr, timeOfLastRadUpdate

timeVars == <<tpc, runTime, simpleControl, plantModel, coupledPatch>>

\* directAndDiffuse::initialise and the filling of qs on the fine faces
VARIABLES
    patchCase,      \* the patches of the mesh of one process and the inputs
    dd              \* selectedPatches_, wallPatchOrNot_, the counters, qs

solarVars == <<patchCase, dd>>

\* calcLAI: the trilinear interpolation and the update of the LAI values
VARIABLES
    laiCase,        \* the interpolation grid and one point with its inputs
    lai             \* the value written for the point, the indices read

laiVars == <<laiCase, lai>>

vars == <<radVars, sunVars, rayVars, vegVars, fineVars,
         timeVars,
         solarVars,
         laiVars>>

\* the fine-face variables of a state in which they are not followed
FineOff ==
    /\ fineCase = [nProcs |-> 0]
    /\ fpc = EmptyList
    /\ T4ave = EmptyList
    /\ qFine = EmptyList
    /\ qrp = EmptyList
    /\ nWrites = EmptyList
    /\ globCoarseId = EmptyList
    /\ overrun = EmptyList


\* the iteration variables of a state in which no vegetation model runs
VegOff ==
    /\ vegCase = [model |-> "none"]
    /\ vpc = "off"
    /\ iterI = 0
    /\ Tl_ = EmptyList
    /\ new_Tl = EmptyList
    /\ rawTl = EmptyList
    /\ boundTl = FALSE
    /\ warned = 0
    /\ maxRelError = Zero
    /\ vegInfo = {}


\* the generator variables of a state in which the generator does not run
RayOff ==
    /\ rayCase = [nProcs |-> 0]
    /\ rpc = EmptyList
    /\ vectorId = EmptyList
    /\ rays = EmptyList
    /\ nVisibleFaceFacesListFINE = EmptyList
    /\ written = EmptyList

\* no update has interpolated anything
NotRun == [done |-> FALSE]

\* the sun-position variables of a state in which no table is followed
SunOff ==
    /\ sunPosVector = EmptyList
    /\ stamped = EmptyList
    /\ timeValue = Zero
    /\ ddOut = NotRun
    /\ vegOut = NotRun

\* the variables kept by every step of the radiosity solvers, of the
\* sun-position bracket and of the generator
outsideRadiation == <<sunVars, rayVars, vegVars, fineVars,
                      timeVars, solarVars, laiVars>>

outsideSun == <<radVars, rayVars, vegVars, fineVars,
                timeVars, solarVars, laiVars>>

outsideRay == <<radVars, sunVars, vegVars, fineVars,
                timeVars, solarVars, laiVars>>

outsideVeg == <<radVars, sunVars, rayVars, fineVars,
                timeVars, solarVars, laiVars>>

outsideFine == <<radVars, sunVars, rayVars, vegVars,
                 timeVars, solarVars, laiVars>>

\* a record of an object that is not constructed
NoObject == [constructed |-> FALSE]

\* the time-loop variables of a state in which they are not followed
TimeOff ==
    /\ tpc = "off"
    /\ runTime = NoObject
    /\ simpleControl = NoObject
    /\ plantModel = NoObject
    /\ coupledPatch = NoObject

outsideTime == <<radVars, sunVars, rayVars, vegVars,
                 fineVars, solarVars, laiVars>>

\* the directAndDiffuse variables of a state in which they are not followed
SolarOff ==
    /\ patchCase = NoObject
    /\ dd = NoObject

outsideSolar == <<radVars, sunVars, rayVars, vegVars,
                  fineVars, timeVars, laiVars>>

\* the calcLAI variables of a state in which they are not followed
LaiOff ==
    /\ laiCase = NoObject
    /\ lai = NoObject

outsideLai == <<radVars, sunVars, rayVars, vegVars,
                fineVars, timeVars, solarVars>>

Procs == 0..(case.nProcs - 1)

NoFile == [exists |-> FALSE, n |-> 0, CLU |-> Unset, piv |-> EmptyList]

NoEvents == [opened |-> FALSE, warned |-> FALSE, loaded |-> FALSE,
             decomposed |-> FALSE, wrote |-> FALSE,
             solved |-> FALSE, backsubstituted |-> FALSE]

\* the members a constructor leaves behind, before initialise()
Constructed(c) ==
    /\ pc = [p \in 0..(c.nProcs - 1) |-> "constructed"]
    /\ calls = [p \in 0..(c.nProcs - 1) |-> 0]
    /\ nLocalCoarseFaces_ = [p \in 0..(c.nProcs - 1) |-> 0]
    /\ totalNCoarseFaces_ = [p \in 0..(c.nProcs - 1) |-> 0]
    /\ Fmatrix_ = [p \in 0..(c.nProcs - 1) |-> Unset]
    /\ CLU_ = [p \in 0..(c.nProcs - 1) |-> Unset]
    /\ pivotIndices_ = [p \in 0..(c.nProcs - 1) |-> EmptyList]
    /\ constOptical_ = [p \in 0..(c.nProcs - 1) |-> FALSE]
    /\ iterCounter_ = [p \in 0..(c.nProcs - 1) |-> 0]
    /\ skyViewCoeffGlobal_ = [p \in 0..(c.nProcs - 1) |-> Unset]
    /\ sunViewCoeffGlobal_ = [p \in 0..(c.nProcs - 1) |-> Unset]
    /\ gath = [p \in 0..(c.nProcs - 1) |-> Unset]
    /\ q = [p \in 0..(c.nProcs - 1) |-> Unset]
    /\ qBf = [p \in 0..(c.nProcs - 1) |-> [k \in 0..(c.nLocal[p] - 1) |-> Zero]]
    /\ ev = [p \in 0..(c.nProcs - 1) |-> NoEvents]
    /\ factFrom = [src |-> "none", opt |-> EmptyList]

\* the radiosity variables of a state in which no solver object exists
RadOff ==
    /\ solver = "none"
    /\ run = 0
    /\ case = [nProcs |-> 0]
    /\ fileCLU = NoFile
    /\ timeIndex = 0
    /\ fields = EmptyList
    /\ pc = EmptyList
    /\ calls = EmptyList
    /\ nLocalCoarseFaces_ = EmptyList
    /\ totalNCoarseFaces_ = EmptyList
    /\ Fmatrix_ = EmptyList
    /\ CLU_ = EmptyList
    /\ pivotIndices_ = EmptyList
    /\ constOptical_ = EmptyList
    /\ iterCounter_ = EmptyList
    /\ skyViewCoeffGlobal_ = EmptyList
    /\ sunViewCoeffGlobal_ = EmptyList
    /\ gath = EmptyList
    /\ q = EmptyList
    /\ qBf = EmptyList
    /\ ev = EmptyList
    /\ factFrom = [src |-> "none", opt |-> EmptyList]

Init ==
    /\ solver \in Solvers
    /\ run = 1
    /\ case \in Cases
    /\ fileCLU = NoFile
    /\ timeIndex = 0
    /\ fields = MakeFields(globalSize(case.nLocal), "uniform", "black", Zero)
    /\ Constructed(case)
    /\ SunOff
    /\ RayOff
    /\ VegOff
    /\ FineOff
    /\ TimeOff
    /\ SolarOff
    /\ LaiOff

(***************************************************************************)
(* initialise()                                                            *)
(***************************************************************************)
\* the processes whose gathered lists process p holds after gatherList
Held(p) == IF IsMaster(p) THEN Procs ELSE {p}

\* insertMatrixElements: the view factors of the local faces of proci go to
\* row toGlobal(proci, facei), columns globalFaceFaces[facei][i]
insertMatrixElements(nLocal, proci, globalFaceFaces, viewFactors, Fmatrix) ==
    [r \in DOMAIN Fmatrix |->
        [c \in DOMAIN Fmatrix |->
            IF \E facei \in DOMAIN viewFactors :
                  /\ r = toGlobal(nLocal, proci, facei)
                  /\ \E i \in DOMAIN globalFaceFaces[facei] :
                        globalFaceFaces[facei][i] = c
            THEN LET facei == CHOOSE f \in DOMAIN viewFactors :
                                  r = toGlobal(nLocal, proci, f)
                     \* the last write to the entry wins
                     i == CHOOSE x \in DOMAIN globalFaceFaces[facei] :
                            /\ globalFaceFaces[facei][x] = c
                            /\ \A y \in DOMAIN globalFaceFaces[facei] :
                                  globalFaceFaces[facei][y] = c => y <= x
                 IN  viewFactors[facei][i]
            ELSE Fmatrix[r][c]]]

\* the loop over proci = 0 .. nProcs-1 around insertMatrixElements
RECURSIVE AssembleF(_, _, _)
AssembleF(c, n, Fmatrix) ==
    IF n = 0 THEN Fmatrix
    ELSE insertMatrixElements(c.nLocal, n - 1, c.globalFaceFaces[n - 1],
                              c.F[n - 1], AssembleF(c, n - 1, Fmatrix))

\* the factor every entry of a row with sum sumF is multiplied by
SmoothFactor(slv, sumF) ==
    LET delta == RSub(sumF, One)
    IN  IF slv = "viewFactorSky"
        THEN RSub(One, RDiv(delta, RAdd(sumF, Rat(1, 1000))))
        ELSE RSub(One, RDiv(delta, sumF))

RowSum(M, i) == RSum(M[i], Size(M[i]))

Smooth(slv, Fmatrix) ==
    [i \in DOMAIN Fmatrix |->
        [j \in DOMAIN Fmatrix |->
            RMul(Fmatrix[i][j], SmoothFactor(slv, RowSum(Fmatrix, i)))]]

\* the view-factor matrix the coordinating process is left with
BuildFmatrix(slv, c) ==
    LET assembled == AssembleF(c, c.nProcs, ZeroMatrix(globalSize(c.nLocal)))
    IN  IF c.smoothing THEN Smooth(slv, assembled) ELSE assembled

\* insertScalarListListElements with "coarse": the coefficients of the local
\* faces of procI go to position sunskyMap[procI][faceI] of every time stamp
insertScalarListListElements(procI, sunskyMap, localCoeffs, globalCoeffs) ==
    [v \in DOMAIN globalCoeffs |->
        [g \in DOMAIN globalCoeffs[v] |->
            IF v \in DOMAIN localCoeffs
               /\ \E faceI \in DOMAIN localCoeffs[v] : sunskyMap[procI][faceI] = g
            THEN localCoeffs[v][CHOOSE faceI \in DOMAIN localCoeffs[v] :
                                    sunskyMap[procI][faceI] = g]
            ELSE globalCoeffs[v][g]]]

\* the loop over procI; a list that was not gathered to process p is empty
RECURSIVE GlobalCoeffs(_, _, _, _, _)
GlobalCoeffs(c, p, local, n, N) ==
    IF n = 0
    THEN [v \in DOMAIN sunPosVector_x |-> [g \in 0..(N - 1) |-> Zero]]
    ELSE LET sofar == GlobalCoeffs(c, p, local, n - 1, N)
         IN  IF (n - 1) \in Held(p)
             THEN insertScalarListListElements(n - 1, c.sunskyMap,
                                               local[n - 1], sofar)
             ELSE sofar

\* a smoothed row with sum zero divides by zero in directAndDiffuse
DivideByZero(slv, c) ==
    /\ slv = "directAndDiffuse"
    /\ c.smoothing
    /\ LET assembled == AssembleF(c, c.nProcs, ZeroMatrix(globalSize(c.nLocal)))
       IN  \E i \in DOMAIN assembled : RowSum(assembled, i) = Zero

Abort == pc' = [p \in Procs |-> "aborted"]

initialise(p) ==
    /\ UNCHANGED outsideRadiation
    /\ pc[p] = "constructed"
    \* the coordinating process receives the lists of every other process
    /\ IsMaster(p) => \A o \in Procs \ {p} : pc[o] # "constructed"
    /\ LET N == globalSize(case.nLocal)
       IN  /\ nLocalCoarseFaces_' = [nLocalCoarseFaces_ EXCEPT ![p] = case.nLocal[p]]
           /\ totalNCoarseFaces_' = [totalNCoarseFaces_ EXCEPT ![p] = N]
           /\ IF solver = "directAndDiffuse"
              THEN /\ skyViewCoeffGlobal_' = [skyViewCoeffGlobal_ EXCEPT
                          ![p] = GlobalCoeffs(case, p, case.skyViewCoeff, case.nProcs, N)]
                   /\ sunViewCoeffGlobal_' = [sunViewCoeffGlobal_ EXCEPT
                          ![p] = GlobalCoeffs(case, p, case.sunViewCoeff, case.nProcs, N)]
              ELSE UNCHANGED <<skyViewCoeffGlobal_, sunViewCoeffGlobal_>>
           /\ IF IsMaster(p)
              THEN /\ Fmatrix_' = [Fmatrix_ EXCEPT ![p] = BuildFmatrix(solver, case)]
                   /\ constOptical_' = [constOptical_ EXCEPT ![p] = case.constant]
                   /\ IF case.constant
                      THEN /\ CLU_' = [CLU_ EXCEPT ![p] = ZeroMatrix(N)]
                           /\ pivotIndices_' = [pivotIndices_ EXCEPT
                                  ![p] = [i \in 0..(N - 1) |-> 0]]
                      ELSE UNCHANGED <<CLU_, pivotIndices_>>
                   \* with floating-point exceptions trapped the division by
                   \* zero ends the run, otherwise the row becomes NaN
                   /\ \/ pc' = [pc EXCEPT ![p] = "ready"]
                      \/ DivideByZero(solver, case) /\ Abort
              ELSE /\ pc' = [pc EXCEPT ![p] = "ready"]
                   /\ UNCHANGED <<Fmatrix_, constOptical_, CLU_, pivotIndices_>>
    /\ UNCHANGED <<solver, run, case, fileCLU, timeIndex, fields, calls,
                   iterCounter_, gath, q, qBf, ev, factFrom>>

(***************************************************************************)
(* calculate(): the inputs gathered from the partitions                    *)
(***************************************************************************)
\* the global ids of the compact addressing of process p: its own coarse
\* faces and the faces of other processes that its own faces see
compactGlobalIds(c, p) ==
    {toGlobal(c.nLocal, p, k) : k \in 0..(c.nLocal[p] - 1)}
    \cup UNION {{c.globalFaceFaces[p][k][i] : i \in DOMAIN c.globalFaceFaces[p][k]} :
                    k \in 0..(c.nLocal[p] - 1)}

\* "Fill lists from compact to global indexes": zero where p has no value
GlobalFill(c, p, values) ==
    [g \in 0..(globalSize(c.nLocal) - 1) |->
        IF g \in compactGlobalIds(c, p) THEN values[g] ELSE Zero]

\* maxEqOp: x = max(x, y), with max(a, b) = (a > b) ? a : b
maxEqOp(x, y) == IF RGt(x, y) THEN x ELSE y

\* listCombineGather(values, maxEqOp) followed by listCombineScatter: every
\* process ends with the lists of processes 0 .. n-1 combined entry by entry
RECURSIVE listCombine(_, _)
listCombine(lists, n) ==
    IF n = 1 THEN lists[0]
    ELSE LET sofar == listCombine(lists, n - 1)
         IN  [g \in DOMAIN sofar |-> maxEqOp(sofar[g], lists[n - 1][g])]

\* the sun-position bracket: lo, hi and hi_fraction for time t
RECURSIVE BracketFrom(_, _, _, _, _)
BracketFrom(x, t, i, lo, hi) ==
    IF i >= Size(x) THEN [lo |-> lo, hi |-> hi]
    ELSE IF RGe(t, x[i]) THEN BracketFrom(x, t, i + 1, i, i)
    ELSE [lo |-> lo, hi |-> i]

Bracket(x, t) ==
    LET b == BracketFrom(x, t, 0, 0, 0)
    IN  [lo |-> b.lo, hi |-> b.hi,
         hi_fraction |-> IF b.lo # b.hi
                         THEN RDiv(RSub(t, x[b.lo]), RSub(x[b.hi], x[b.lo]))
                         ELSE Zero]

\* faulty variant: the weights of the two time stamps are exchanged
InterpolateSwapped(table, b, j) ==
    RAdd(RMul(table[b.lo][j], b.hi_fraction),
         RMul(table[b.hi][j], RSub(One, b.hi_fraction)))

\* value*(1-hi_fraction) at lo plus value*hi_fraction at hi
Interpolate(table, b, j) ==
    RAdd(RMul(table[b.lo][j], RSub(One, b.hi_fraction)),
         RMul(table[b.hi][j], b.hi_fraction))

(***************************************************************************)
(* calculate(): the radiosity system on the coordinating process           *)
(***************************************************************************)
\* the coefficient matrix C of the long-wave system
CoeffMatrixLW(F, E, m) ==
    [i \in 0..(m - 1) |-> [j \in 0..(m - 1) |->
        LET invEj == RDiv(One, E[j])
        IN  IF i = j
            THEN RSub(invEj, RMul(RSub(invEj, One), F[i][j]))
            ELSE RMul(RSub(One, invEj), F[i][j])]]

\* the coefficient matrix C of the short-wave system
CoeffMatrixSW(F, A, m) ==
    [i \in 0..(m - 1) |-> [j \in 0..(m - 1) |->
        LET r == RDiv(A[j], RSub(One, A[j]))
        IN  IF i = j
            THEN RSub(RDiv(One, RSub(One, A[j])), RMul(r, F[i][j]))
            ELSE RNeg(RMul(r, F[i][j]))]]

CoeffMatrix(slv, F, opt, m) ==
    IF slv = "viewFactorSky" THEN CoeffMatrixLW(F, opt, m)
    ELSE CoeffMatrixSW(F, opt, m)

\* right-hand side of the long-wave system, variable-emissivity branch
SourceVariableLW(F, T4, qrExt, m) ==
    [i \in 0..(m - 1) |->
        RSum([j \in 0..(m - 1) |->
                LET sigmaT4 == RMul(sigma, T4[j])
                IN  IF i = j
                    THEN RSub(RMul(RSub(F[i][j], One), sigmaT4), qrExt[j])
                    ELSE RMul(F[i][j], sigmaT4)], m)]

\* faulty variant: the external flux is left out of the right-hand side
SourceConstantLWNoExt(F, T4, qrExt, m) ==
    [i \in 0..(m - 1) |->
        RSum([j \in 0..(m - 1) |->
                LET sigmaT4 == RMul(sigma, T4[j])
                IN  IF i = j
                    THEN RMul(RSub(F[i][j], One), sigmaT4)
                    ELSE RMul(F[i][j], sigmaT4)], m)]

\* faulty variant: the emission of face i is not taken off its own row
SourceConstantLWNoEmission(F, T4, qrExt, m) ==
    [i \in 0..(m - 1) |->
        RSum([j \in 0..(m - 1) |->
                LET sigmaT4 == RMul(sigma, T4[j])
                IN  IF i = j
                    THEN RSub(RMul(F[i][j], sigmaT4), qrExt[j])
                    ELSE RMul(F[i][j], sigmaT4)], m)]

\* right-hand side of the long-wave system, constant-emissivity branch
SourceConstantLW(F, T4, qrExt, m) ==
    [i \in 0..(m - 1) |->
        RSum([j \in 0..(m - 1) |->
                LET sigmaT4 == RMul(sigma, T4[j])
                IN  IF i = j
                    THEN RSub(RMul(RSub(F[i][j], One), sigmaT4), qrExt[j])
                    ELSE RMul(F[i][j], sigmaT4)], m)]

\* right-hand side of the short-wave system, variable-albedo branch:
\* Isol is taken at time stamp lo
SourceVariableSW(sky, sun, b, qsExt, m) ==
    [i \in 0..(m - 1) |->
        RSum([j \in 0..(m - 1) |->
                LET Isol == RAdd(sky[b.lo][j], sun[b.lo][j])
                IN  IF i = j
                    THEN RSub(RMul(RNeg(One), RNeg(Isol)), qsExt[j])
                    ELSE RSub(Zero, qsExt[j])], m)]

\* right-hand side of the short-wave system, constant-albedo branch:
\* Isol is interpolated between the time stamps lo and hi
SourceConstantSW(sky, sun, b, qsExt, m) ==
    [i \in 0..(m - 1) |->
        RSum([j \in 0..(m - 1) |->
                LET Isol == RAdd(Interpolate(sky, b, j), Interpolate(sun, b, j))
                IN  IF i = j
                    THEN RSub(RMul(RNeg(One), RNeg(Isol)), qsExt[j])
                    ELSE RSub(Zero, qsExt[j])], m)]

\* the right-hand side process p builds from the gathered lists g
SourceVariable(p, g, m) ==
    IF solver = "viewFactorSky"
    THEN SourceVariableLW(Fmatrix_[p], g.T4, g.qExt, m)
    ELSE SourceVariableSW(skyViewCoeffGlobal_[p], sunViewCoeffGlobal_[p],
                          Bracket(sunPosVector_x, fields.t), g.qExt, m)

SourceConstant(p, g, m) ==
    IF solver = "viewFactorSky"
    THEN SourceConstantLW(Fmatrix_[p], g.T4, g.qExt, m)
    ELSE SourceConstantSW(skyViewCoeffGlobal_[p], sunViewCoeffGlobal_[p],
                          Bracket(sunPosVector_x, fields.t), g.qExt, m)

\* the variable-properties solve: C is rebuilt and solved by LUsolve
VariableSolve(p, g, m) ==
    Bind(CoeffMatrix(solver, Fmatrix_[p], g.E, m),
         LAMBDA C : LUsolve(C, SourceVariable(p, g, m), m))

\* faulty variant: a file holding at least totalNCoarseFaces_ elements passes
testCLUAtLeast(testCLU, total) == testCLU >= total

\* `if (testCLU == totalNCoarseFaces_)`
testCLUMatches(testCLU, total) == testCLU = total

\* faulty variant: the factorization is never written
WriteNever(nProcs) == FALSE

\* `if (Pstream::nProcs() > 1)`: "Write file - only in parallel cases"
WriteInParallel(nProcs) == nProcs > 1

\* the first constant-properties update: CLU_ is read from the file when the
\* file is good and its element count is totalNCoarseFaces_, otherwise the
\* freshly built matrix is decomposed and, in a parallel run, written
Factorize(p, g, m) ==
    LET good == fileCLU.exists
        match == good /\ testCLUMatches(fileCLU.n, m)
    IN  IF match
        THEN [fatal |-> FALSE, CLU |-> fileCLU.CLU, piv |-> fileCLU.piv,
              file |-> fileCLU,
              events |-> [NoEvents EXCEPT !.opened = TRUE, !.loaded = TRUE],
              from |-> [src |-> "file", opt |-> EmptyList]]
        ELSE Bind(CoeffMatrix(solver, Fmatrix_[p], g.E, m), LAMBDA fresh :
             Bind(LUDecompose(fresh, m), LAMBDA d :
                IF d.fatal
                THEN [fatal |-> TRUE, CLU |-> fresh, piv |-> pivotIndices_[p],
                      file |-> fileCLU,
                      events |-> [NoEvents EXCEPT !.opened = TRUE,
                                                  !.warned = good,
                                                  !.decomposed = TRUE],
                      from |-> [src |-> "none", opt |-> EmptyList]]
                ELSE [fatal |-> FALSE, CLU |-> d.M, piv |-> d.piv,
                      file |-> IF WriteInParallel(case.nProcs)
                               THEN [exists |-> TRUE, n |-> m,
                                     CLU |-> d.M, piv |-> d.piv]
                               ELSE fileCLU,
                      events |-> [NoEvents EXCEPT !.opened = TRUE,
                                                  !.warned = good,
                                                  !.decomposed = TRUE,
                                                  !.wrote =
                                                      WriteInParallel(case.nProcs)],
                      from |-> [src |-> "decompose", opt |-> g.E]]))

\* a later constant-properties update keeps what the first one left
Kept(p) ==
    [fatal |-> FALSE, CLU |-> CLU_[p], piv |-> pivotIndices_[p],
     file |-> fileCLU, events |-> NoEvents, from |-> factFrom]

(***************************************************************************)
(* calculate(), process by process; the collectives cut it in three steps  *)
(***************************************************************************)
\* local averages, compact distribution and the fill of the global lists
calculateGather(p) ==
    /\ UNCHANGED outsideRadiation
    /\ pc[p] = "ready"
    /\ calls[p] < timeIndex
    /\ calls' = [calls EXCEPT ![p] = @ + 1]
    /\ gath' = [gath EXCEPT ![p] =
            [T4 |-> IF solver = "viewFactorSky"
                    THEN GlobalFill(case, p, fields.T4)
                    ELSE [g \in 0..(globalSize(case.nLocal) - 1) |-> Zero],
             E |-> IF solver = "viewFactorSky"
                   THEN GlobalFill(case, p, fields.E)
                   ELSE GlobalFill(case, p, fields.A),
             qExt |-> GlobalFill(case, p, fields.Ho)]]
    /\ q' = [q EXCEPT ![p] = Unset]
    /\ ev' = [ev EXCEPT ![p] = NoEvents]
    /\ pc' = [pc EXCEPT ![p] = "gathered"]
    /\ UNCHANGED <<solver, run, case, fileCLU, timeIndex, fields,
                   nLocalCoarseFaces_, totalNCoarseFaces_, Fmatrix_, CLU_,
                   pivotIndices_, constOptical_, iterCounter_,
                   skyViewCoeffGlobal_, sunViewCoeffGlobal_, qBf, factFrom>>

\* the lists after listCombineGather / listCombineScatter
Combined ==
    [T4 |-> listCombine([o \in Procs |-> gath[o].T4], case.nProcs),
     E |-> listCombine([o \in Procs |-> gath[o].E], case.nProcs),
     qExt |-> listCombine([o \in Procs |-> gath[o].qExt], case.nProcs)]

\* faulty variant: the variable-properties branch is never taken
VariableBranchNever(p) == FALSE

\* `if (!constEmissivity_)` / `if (!constAlbedo_)`
VariableBranch(p) == ~constOptical_[p]

\* faulty variant: every update is taken for the initial one
AnyIteration(p) == TRUE

\* `if (iterCounter_ == 0)`
FirstIteration(p) == iterCounter_[p] = 0

\* the block under `if (Pstream::master())`
calculateSolve(p) ==
    /\ UNCHANGED outsideRadiation
    /\ pc[p] = "gathered"
    /\ \A o \in Procs : calls[o] = calls[p]
    /\ \E g \in {Combined} :
       LET m == totalNCoarseFaces_[p]
       IN  /\ gath' = [gath EXCEPT ![p] = g]
           /\ IF ~IsMaster(p)
              THEN /\ q' = [q EXCEPT ![p] = [i \in 0..(m - 1) |-> Zero]]
                   /\ pc' = [pc EXCEPT ![p] = "solved"]
                   /\ UNCHANGED <<CLU_, pivotIndices_, iterCounter_, fileCLU,
                                  ev, factFrom>>
              ELSE IF VariableBranch(p)
              THEN \E r \in {VariableSolve(p, g, m)} :
                       /\ ev' = [ev EXCEPT ![p] = [NoEvents EXCEPT !.solved = TRUE]]
                       /\ IF r.fatal
                          THEN Abort /\ UNCHANGED q
                          ELSE /\ q' = [q EXCEPT ![p] = r.q]
                               /\ pc' = [pc EXCEPT ![p] = "solved"]
                       /\ UNCHANGED <<CLU_, pivotIndices_, iterCounter_,
                                      fileCLU, factFrom>>
              ELSE \E f \in {IF FirstIteration(p)
                             THEN Factorize(p, g, m) ELSE Kept(p)} :
                       /\ CLU_' = [CLU_ EXCEPT ![p] = f.CLU]
                       /\ pivotIndices_' = [pivotIndices_ EXCEPT ![p] = f.piv]
                       /\ fileCLU' = f.file
                       /\ factFrom' = f.from
                       /\ IF f.fatal
                          THEN /\ Abort
                               /\ ev' = [ev EXCEPT ![p] = f.events]
                               /\ UNCHANGED <<q, iterCounter_>>
                          ELSE /\ q' = [q EXCEPT ![p] =
                                     LUBacksubstitute(f.CLU, f.piv,
                                                      SourceConstant(p, g, m), m)]
                               /\ iterCounter_' = [iterCounter_ EXCEPT ![p] = @ + 1]
                               /\ ev' = [ev EXCEPT ![p] =
                                     [f.events EXCEPT !.backsubstituted = TRUE]]
                               /\ pc' = [pc EXCEPT ![p] = "solved"]
    /\ UNCHANGED <<solver, run, case, timeIndex, fields, calls,
                   nLocalCoarseFaces_, totalNCoarseFaces_, Fmatrix_,
                   constOptical_, skyViewCoeffGlobal_, sunViewCoeffGlobal_, qBf>>

\* faulty variant: q is not scattered, every process keeps its own
listCombineKept(p) == q[p]

\* listCombineScatter(q): every process receives the q of the coordinating one
listCombineScatter(p) == q[0]

\* "Scatter q and fill qr": listCombineScatter hands the q of the coordinating
\* process to every process, listCombineGather combines them back with maxEqOp
calculateScatter(p) ==
    /\ UNCHANGED outsideRadiation
    /\ pc[p] = "solved"
    /\ IF IsMaster(p)
       THEN \A o \in Procs \ {p} : pc[o] = "ready" /\ calls[o] = calls[p]
       ELSE pc[0] = "solved" /\ calls[0] = calls[p]
    /\ LET qp == IF IsMaster(p) THEN listCombine(q, case.nProcs)
                 ELSE listCombineScatter(p)
       IN  /\ q' = [q EXCEPT ![p] = qp]
           /\ qBf' = [qBf EXCEPT ![p] =
                  [k \in 0..(nLocalCoarseFaces_[p] - 1) |->
                      qp[toGlobal(case.nLocal, p, k)]]]
    /\ pc' = [pc EXCEPT ![p] = "ready"]
    /\ UNCHANGED <<solver, run, case, fileCLU, timeIndex, fields, calls,
                   nLocalCoarseFaces_, totalNCoarseFaces_, Fmatrix_, CLU_,
                   pivotIndices_, constOptical_, iterCounter_,
                   skyViewCoeffGlobal_, sunViewCoeffGlobal_, gath, ev, factFrom>>

(***************************************************************************)
(* the time loop and restarts of the case                                  *)
(***************************************************************************)
Quiescent == \A p \in Procs : pc[p] = "ready" /\ calls[p] = timeIndex

\* runTime.loop(): the next radiation update, with new boundary fields
Advance ==
    /\ UNCHANGED outsideRadiation
    /\ Quiescent
    /\ timeIndex < MaxCalls
    /\ timeIndex' = timeIndex + 1
    /\ fields' \in FieldSets(globalSize(case.nLocal))
    /\ UNCHANGED <<solver, run, case, fileCLU, pc, calls,
                   nLocalCoarseFaces_, totalNCoarseFaces_, Fmatrix_, CLU_,
                   pivotIndices_, constOptical_, iterCounter_,
                   skyViewCoeffGlobal_, sunViewCoeffGlobal_, gath, q, qBf,
                   ev, factFrom>>

\* the run ends and the case is run again, possibly with another geometry,
\* decomposition or dictionary; processor0/CLU_* stays on disk
Restart ==
    /\ UNCHANGED outsideRadiation
    /\ run < MaxRuns
    /\ \/ Quiescent /\ timeIndex >= 1
       \/ \E p \in Procs : pc[p] = "aborted"
    /\ run' = run + 1
    /\ case' \in {c \in Cases : /\ c.smoothing = case.smoothing
                               /\ c.pattern = case.pattern}
    /\ timeIndex' = 0
    /\ fields' = MakeFields(globalSize(case'.nLocal), "uniform", "black", Zero)
    /\ pc' = [p \in 0..(case'.nProcs - 1) |-> "constructed"]
    /\ calls' = [p \in 0..(case'.nProcs - 1) |-> 0]
    /\ nLocalCoarseFaces_' = [p \in 0..(case'.nProcs - 1) |-> 0]
    /\ totalNCoarseFaces_' = [p \in 0..(case'.nProcs - 1) |-> 0]
    /\ Fmatrix_' = [p \in 0..(case'.nProcs - 1) |-> Unset]
    /\ CLU_' = [p \in 0..(case'.nProcs - 1) |-> Unset]
    /\ pivotIndices_' = [p \in 0..(case'.nProcs - 1) |-> EmptyList]
    /\ constOptical_' = [p \in 0..(case'.nProcs - 1) |-> FALSE]
    /\ iterCounter_' = [p \in 0..(case'.nProcs - 1) |-> 0]
    /\ skyViewCoeffGlobal_' = [p \in 0..(case'.nProcs - 1) |-> Unset]
    /\ sunViewCoeffGlobal_' = [p \in 0..(case'.nProcs - 1) |-> Unset]
    /\ gath' = [p \in 0..(case'.nProcs - 1) |-> Unset]
    /\ q' = [p \in 0..(case'.nProcs - 1) |-> Unset]
    /\ qBf' = [p \in 0..(case'.nProcs - 1) |->
                  [k \in 0..(case'.nLocal[p] - 1) |-> Zero]]
    /\ ev' = [p \in 0..(case'.nProcs - 1) |-> NoEvents]
    /\ factFrom' = [src |-> "none", opt |-> EmptyList]
    /\ UNCHANGED <<solver, fileCLU>>

Next ==
    \/ \E p \in Procs : initialise(p)
    \/ \E p \in Procs : calculateGather(p)
    \/ \E p \in Procs : calculateSolve(p)
    \/ \E p \in Procs : calculateScatter(p)
    \/ Advance
    \/ Restart

Spec == Init /\ [][Next]_vars

(***************************************************************************)
(* the factorization file and the factorized state                         *)
(***************************************************************************)
\* C1: on the first constant-properties update (iterCounter_ = 0), a
\* factorization file whose stored element count differs from
\* totalNCoarseFaces_ is never loaded into CLU_ / pivotIndices_: the warning
\* is emitted and the factorization is the LU decomposition of the freshly
\* built coefficient matrix.
C1_MismatchedFileDiscarded ==
    [][(/\ pc[0] = "gathered"
        /\ pc'[0] \in {"solved", "aborted"}
        /\ constOptical_[0]
        /\ iterCounter_[0] = 0
        /\ fileCLU.exists
        /\ fileCLU.n # totalNCoarseFaces_[0])
       => LET m == totalNCoarseFaces_[0]
              d == LUDecompose(CoeffMatrix(solver, Fmatrix_[0], gath'[0].E, m), m)
          IN  /\ ev'[0].warned
              /\ ev'[0].decomposed
              /\ ~ev'[0].loaded
              /\ IF d.fatal
                 THEN pc'[0] = "aborted"
                 ELSE /\ pc'[0] = "solved"
                      /\ CLU_'[0] = d.M
                      /\ pivotIndices_'[0] = d.piv]_vars

\* a restarted run has met a file of another element count and decomposed
C1_Witness ==
    /\ run > 1
    /\ pc[0] = "solved"
    /\ constOptical_[0]
    /\ iterCounter_[0] = 1
    /\ ev[0].warned
    /\ ev[0].decomposed
    /\ ~ev[0].loaded

\* C2: under constant optical properties the factorization step (reading the
\* file or LUDecompose) happens only in the first calculate() of an instance;
\* every later calculate() leaves CLU_ and pivotIndices_ unchanged, rebuilds
\* the right-hand side and back-substitutes it.
C2_FactorizedOnlyOnFirstCall ==
    [][\A p \in Procs :
          (run' = run /\ constOptical_[p])
          => /\ iterCounter_[p] >= 1
                => /\ CLU_'[p] = CLU_[p]
                   /\ pivotIndices_'[p] = pivotIndices_[p]
                   /\ fileCLU' = fileCLU
             /\ calls'[p] >= 2
                => /\ ~ev'[p].opened
                   /\ ~ev'[p].loaded
                   /\ ~ev'[p].decomposed
                   /\ ~ev'[p].wrote
             /\ (iterCounter_[p] >= 1 /\ pc[p] = "gathered" /\ pc'[p] # "gathered")
                => LET m == totalNCoarseFaces_[p]
                   IN  /\ pc'[p] = "solved"
                       /\ ev'[p].backsubstituted
                       /\ iterCounter_'[p] = iterCounter_[p] + 1
                       /\ q'[p] = LUBacksubstitute(CLU_[p], pivotIndices_[p],
                                      SourceConstant(p, gath'[p], m), m)]_vars

\* the second update of a constant-properties run has back-substituted
C2_Witness ==
    /\ constOptical_[0]
    /\ calls[0] = 2
    /\ iterCounter_[0] = 2
    /\ pc[0] = "solved"
    /\ ev[0].backsubstituted
    /\ ~ev[0].decomposed
    /\ ~ev[0].loaded

\* C3: under variable optical properties every calculate() rebuilds C from the
\* current emissivity or albedo and solves it directly; CLU_ is never
\* allocated, nothing is decomposed into or back-substituted from a stored
\* matrix, and the factorization file is neither read nor written.
C3_VariableNeverFactorizes ==
    [][(run' = run /\ ~case.constant)
       => /\ fileCLU' = fileCLU
          /\ \A p \in Procs :
                /\ CLU_'[p] = Unset
                /\ pivotIndices_'[p] = EmptyList
                /\ iterCounter_'[p] = 0
                /\ ~ev'[p].opened
                /\ ~ev'[p].loaded
                /\ ~ev'[p].decomposed
                /\ ~ev'[p].wrote
                /\ ~ev'[p].backsubstituted
          /\ (pc[0] = "gathered" /\ pc'[0] = "solved")
             => LET m == totalNCoarseFaces_[0]
                    current == IF solver = "viewFactorSky"
                               THEN fields.E ELSE fields.A
                IN  /\ ev'[0].solved
                    /\ q'[0] = LUsolve(CoeffMatrix(solver, Fmatrix_[0], current, m),
                                       SourceVariable(0, gath'[0], m), m).q]_vars

\* the second update of a variable-properties run, with a file left on disk
\* by an earlier run, has solved
C3_Witness ==
    /\ ~case.constant
    /\ fileCLU.exists
    /\ calls[0] = 2
    /\ pc[0] = "solved"
    /\ ev[0].solved

\* C4, as amended: in a parallel run (more than one process) the first
\* constant-properties update that decomposes C writes the element count, the
\* factorization and the pivot indices to the file; and a run that finds a
\* file with its own element count loads them and calls no LUDecompose.
C4_PersistedInParallelRuns ==
    [][(/\ pc[0] = "gathered"
        /\ pc'[0] = "solved"
        /\ constOptical_[0]
        /\ iterCounter_[0] = 0)
       => LET m == totalNCoarseFaces_[0]
          IN  /\ (ev'[0].decomposed /\ case.nProcs > 1)
                 => fileCLU' = [exists |-> TRUE, n |-> m, CLU |-> CLU_'[0],
                                piv |-> pivotIndices_'[0]]
              /\ (fileCLU.exists /\ fileCLU.n = m)
                 => /\ ev'[0].loaded
                    /\ ~ev'[0].decomposed
                    /\ CLU_'[0] = fileCLU.CLU
                    /\ pivotIndices_'[0] = fileCLU.piv
                    /\ fileCLU' = fileCLU]_vars

\* C4, as stated: whenever the first constant-properties update decomposes
\* C, the factorization is in the file afterwards.
C4_PersistedAlways ==
    [][(/\ pc[0] = "gathered"
        /\ pc'[0] = "solved"
        /\ constOptical_[0]
        /\ iterCounter_[0] = 0
        /\ ev'[0].decomposed)
       => fileCLU' = [exists |-> TRUE, n |-> totalNCoarseFaces_[0],
                      CLU |-> CLU_'[0], piv |-> pivotIndices_'[0]]]_vars

\* a restarted run has loaded the factorization of an earlier run
C4_Witness ==
    /\ run > 1
    /\ pc[0] = "solved"
    /\ constOptical_[0]
    /\ fileCLU.exists
    /\ fileCLU.n = totalNCoarseFaces_[0]
    /\ ev[0].loaded
    /\ ~ev[0].decomposed

(***************************************************************************)
(* the two solution modes                                                  *)
(***************************************************************************)
\* C5: long-wave solver: with the factorization decomposed on the first
\* constant-emissivity update and reused afterwards, every update yields the
\* flux vector q that the variable-emissivity branch (C built and solved by
\* LUsolve, no stored matrix) yields for the same F, emissivities, T^4 and
\* external fluxes.
C5_ConstantMatchesVariableLW ==
    (/\ solver = "viewFactorSky"
     /\ pc[0] = "solved"
     /\ constOptical_[0]
     /\ factFrom.src = "decompose"
     /\ factFrom.opt = gath[0].E)
    => q[0] = VariableSolve(0, gath[0], totalNCoarseFaces_[0]).q

\* the second update has reused the factorization of a coupled system of two
\* grey elements
C5_Witness ==
    /\ solver = "viewFactorSky"
    /\ pc[0] = "solved"
    /\ constOptical_[0]
    /\ iterCounter_[0] = 2
    /\ factFrom.src = "decompose"
    /\ factFrom.opt = gath[0].E
    /\ totalNCoarseFaces_[0] = 2
    /\ gath[0].E[0] = Rat(1, 2)
    /\ case.pattern = "others"

\* C6, as stated: short-wave solver: the constant-albedo branch with the
\* stored factorization yields the flux vector q that the variable-albedo
\* branch yields for the same F, albedos, external fluxes, coefficient tables
\* and time, also for a time strictly between two sun-position time stamps.
C6_ConstantMatchesVariableSW ==
    (/\ solver = "directAndDiffuse"
     /\ pc[0] = "solved"
     /\ constOptical_[0]
     /\ factFrom.src = "decompose"
     /\ factFrom.opt = gath[0].E)
    => q[0] = VariableSolve(0, gath[0], totalNCoarseFaces_[0]).q

(***************************************************************************)
(* the global view-factor matrix                                           *)
(***************************************************************************)
\* the matrix of the coordinating process is in use by a running program
MatrixInUse == pc[0] \in {"ready", "gathered", "solved"}

\* the matrix before the smoothing step
Assembled ==
    AssembleF(case, case.nProcs, ZeroMatrix(globalSize(case.nLocal)))

\* C7, as stated: with smoothing every row of the global view-factor matrix
\* sums to 1 after initialise(), in both solvers: every entry of row i is the
\* assembled entry times (1 - (rowSum - 1)/rowSum).
C7_SmoothedRowsSumToOne ==
    (MatrixInUse /\ case.smoothing)
    => \A i \in DOMAIN Fmatrix_[0] :
          /\ RowSum(Fmatrix_[0], i) = One
          /\ \A j \in DOMAIN Fmatrix_[0] :
                Fmatrix_[0][i][j] =
                    RMul(Assembled[i][j],
                         RSub(One, RDiv(RSub(RowSum(Assembled, i), One),
                                        RowSum(Assembled, i))))

\* the global ids that global element i sees
VisibleFrom(i) ==
    UNION {{case.globalFaceFaces[o][k][x] : x \in DOMAIN case.globalFaceFaces[o][k]} :
              <<o, k>> \in {ok \in Procs \X (0..(MaxFaces - 1)) :
                               /\ ok[2] < case.nLocal[ok[1]]
                               /\ toGlobal(case.nLocal, ok[1], ok[2]) = i}}

\* C8, as stated: if element j is not in the visible-neighbour list of
\* element i then F[i][j] = 0 in the assembled global matrix, before and
\* after the optional smoothing step.
C8_InvisibleEntriesZero ==
    MatrixInUse
    => \A i \in DOMAIN Fmatrix_[0] : \A j \in DOMAIN Fmatrix_[0] :
          j \notin VisibleFrom(i)
          => /\ Assembled[i][j] = Zero
             /\ Fmatrix_[0][i][j] = Zero

\* the (partition, local element index) pairs of the case
LocalElements ==
    {ok \in Procs \X (0..(MaxFaces - 1)) : ok[2] < case.nLocal[ok[1]]}

\* C9: the global numbering sends distinct (partition, local index) pairs to
\* distinct flat indices, and the flat indices are exactly
\* 0 .. totalNCoarseFaces_-1, with totalNCoarseFaces_ the sum of the local
\* element counts of all partitions.
C9_GlobalNumberingBijective ==
    \A p \in Procs :
       pc[p] # "constructed"
       => /\ totalNCoarseFaces_[p] = SumTo(case.nLocal, case.nProcs)
          /\ IsMaster(p)
             => totalNCoarseFaces_[p] = SumTo(nLocalCoarseFaces_, case.nProcs)
          /\ \A a \in LocalElements : \A b \in LocalElements :
                a # b => toGlobal(case.nLocal, a[1], a[2])
                           # toGlobal(case.nLocal, b[1], b[2])
          /\ {toGlobal(case.nLocal, a[1], a[2]) : a \in LocalElements}
                = 0..(totalNCoarseFaces_[p] - 1)

\* two partitions with elements each have been numbered
C9_Witness ==
    /\ case.nProcs = 2
    /\ case.nLocal[0] >= 1
    /\ case.nLocal[1] >= 1
    /\ pc[0] = "ready"
    /\ totalNCoarseFaces_[0] = 2
    /\ Fmatrix_[0][1][0] # Zero

\* C10: assembly, factorization, file access and the solve happen on the
\* coordinating process only: no other process holds Fmatrix_ or CLU_ or
\* touches the file, the file changes only in the solve step of the
\* coordinating process, and when calculate() has completed every process
\* holds the q of the coordinating process.
C10_CoordinatingProcessOnly ==
    [][run' = run
       => /\ \A p \in Procs \ {0} :
                /\ Fmatrix_'[p] = Unset
                /\ CLU_'[p] = Unset
                /\ pivotIndices_'[p] = EmptyList
                /\ ev'[p] = NoEvents
          /\ fileCLU' # fileCLU => (pc[0] = "gathered" /\ pc'[0] = "solved")
          /\ (timeIndex' >= 1 /\ \A p \in Procs :
                                    pc'[p] = "ready" /\ calls'[p] = timeIndex')
             => \A p \in Procs :
                   /\ q'[p] = q'[0]
                   /\ \A k \in 0..(case.nLocal[p] - 1) :
                         qBf'[p][k] = q'[0][toGlobal(case.nLocal, p, k)]]_vars

\* a parallel constant-properties update has completed: the coordinating
\* process wrote the file and the other process holds its non-zero q
C10_Witness ==
    /\ case.nProcs = 2
    /\ timeIndex >= 1
    /\ \A p \in Procs : pc[p] = "ready" /\ calls[p] = timeIndex
    /\ ev[0].wrote
    /\ q[1] = q[0]
    /\ \E i \in DOMAIN q[0] : q[0][i] # Zero
(***************************************************************************)
(* the sun-position bracket of one radiation update: directAndDiffuse and  *)
(* simplifiedVegetation read constant/sunPosVector, look for the two time  *)
(* stamps around time.value() and interpolate their coefficient tables     *)
(***************************************************************************)
\* time stamps of a sun-position table
MaxStamps == 3

\* the whole-numbered times a stamp can carry
StampTimes == 0..(MaxStamps + 2)

\* the tables TableFile accepts: not empty, strictly increasing
Tables ==
    UNION {{[i \in 0..(n - 1) |-> Rat(x[i], 1)] :
                x \in {y \in [0..(n - 1) -> StampTimes] :
                          \A i \in 1..(n - 1) : y[i - 1] < y[i]}} :
           n \in 1..MaxStamps}

\* simulation times: before, at, between and after the stamps
QueryTimes == {Rat(k, 2) : k \in (-1)..(2 * (MaxStamps + 2) + 1)}

\* shapes of the coefficient histories over the day
Profiles == {"rising", "peaked"}

\* skyViewCoeff, sunViewCoeff and solarLoadFineFaces of one face and divqrsw
\* of one cell, per time stamp
Stamped(n, profile) ==
    [skyViewCoeff |->
        [v \in 0..(n - 1) |-> [j \in {0} |->
            IF profile = "rising" THEN Rat(1 + v, 1) ELSE Rat(1 + 3 * (v % 2), 1)]],
     sunViewCoeff |->
        [v \in 0..(n - 1) |-> [j \in {0} |->
            IF profile = "rising" THEN Rat(4 * v, 1) ELSE Rat(7 * (v % 2), 2)]],
     solarLoadFineFaces |->
        [v \in 0..(n - 1) |-> [j \in {0} |->
            IF profile = "rising" THEN Rat(3 * v + 1, 1) ELSE Rat(9 - 2 * v, 1)]],
     divqrsw |->
        [v \in 0..(n - 1) |-> [j \in {0} |->
            IF profile = "rising" THEN Rat(2 * v + 1, 1) ELSE Rat(5 - v * v, 1)]]]

InitSun ==
    /\ RadOff
    /\ RayOff
    /\ VegOff
    /\ FineOff
    /\ TimeOff
    /\ SolarOff
    /\ LaiOff
    /\ sunPosVector \in Tables
    /\ stamped \in {Stamped(Size(sunPosVector), pr) : pr \in Profiles}
    /\ timeValue \in QueryTimes
    /\ ddOut = NotRun
    /\ vegOut = NotRun

\* directAndDiffuse::calculate: the bracket, Isol of the variable-albedo
\* source (time stamp lo), Isol of the constant-albedo source, and the two
\* coefficients of the wall correction of the fine faces
ddCalculate ==
    /\ ~ddOut.done
    /\ \E b \in {Bracket(sunPosVector, timeValue)} :
          ddOut' = [done |-> TRUE,
                    lo |-> b.lo, hi |-> b.hi, hi_fraction |-> b.hi_fraction,
                    IsolVariable |-> RAdd(stamped.skyViewCoeff[b.lo][0],
                                          stamped.sunViewCoeff[b.lo][0]),
                    Isol |-> RAdd(Interpolate(stamped.skyViewCoeff, b, 0),
                                  Interpolate(stamped.sunViewCoeff, b, 0)),
                    sunViewCoeff |-> Interpolate(stamped.sunViewCoeff, b, 0),
                    solarLoadFineFaces |->
                        Interpolate(stamped.solarLoadFineFaces, b, 0)]
    /\ UNCHANGED <<outsideSun, sunPosVector, stamped, timeValue, vegOut>>

\* faulty variant: a time stamp equal to the time is not taken for lo
RECURSIVE radiationRangeStrict(_, _, _, _, _)
radiationRangeStrict(x, t, i, lo, hi) ==
    IF i >= Size(x) THEN [lo |-> lo, hi |-> hi]
    ELSE IF RGt(t, x[i]) THEN radiationRangeStrict(x, t, i + 1, i, i)
    ELSE [lo |-> lo, hi |-> i]

\* simplifiedVegetation::radiation, "look for the correct range": the state
\* of the loop before index i
RECURSIVE radiationRange(_, _, _, _, _)
radiationRange(x, t, i, lo, hi) ==
    IF i >= Size(x) THEN [lo |-> lo, hi |-> hi]
    ELSE IF RGe(t, x[i]) THEN radiationRange(x, t, i + 1, i, i)
    ELSE [lo |-> lo, hi |-> i]

\* lo, hi and hi_fraction of simplifiedVegetation::radiation
radiationBracket(x, t) ==
    LET r == radiationRange(x, t, 0, 0, 0)
    IN  [lo |-> r.lo, hi |-> r.hi,
         hi_fraction |-> IF r.lo # r.hi
                         THEN RDiv(RSub(t, x[r.lo]), RSub(x[r.hi], x[r.lo]))
                         ELSE Zero]

\* divqrswi of a cell: divqrsw[lo]*(1-hi_fraction) + divqrsw[hi]*hi_fraction
divqrswi(divqrsw, b, cellI) ==
    RAdd(RMul(divqrsw[b.lo][cellI], RSub(One, b.hi_fraction)),
         RMul(divqrsw[b.hi][cellI], b.hi_fraction))

\* simplifiedVegetation::radiation: the bracket and divqrswi
vegRadiation ==
    /\ ~vegOut.done
    /\ \E b \in {radiationBracket(sunPosVector, timeValue)} :
          vegOut' = [done |-> TRUE,
                     lo |-> b.lo, hi |-> b.hi, hi_fraction |-> b.hi_fraction,
                     divqrswi |-> divqrswi(stamped.divqrsw, b, 0)]
    /\ UNCHANGED <<outsideSun, sunPosVector, stamped, timeValue, ddOut>>

\* runTime++: both models have updated, the time moves on
SunAdvance ==
    /\ ddOut.done
    /\ vegOut.done
    /\ timeValue' \in {t \in QueryTimes : RGt(t, timeValue)}
    /\ ddOut' = NotRun
    /\ vegOut' = NotRun
    /\ UNCHANGED <<outsideSun, sunPosVector, stamped>>

NextSun ==
    \/ ddCalculate
    \/ vegRadiation
    \/ SunAdvance

SpecSun == InitSun /\ [][NextSun]_vars

\* the positions of the table whose time stamp is the current time
StampsNow == {k \in DOMAIN sunPosVector : sunPosVector[k] = timeValue}

\* C11: when the time of a radiation update equals a stored sun-position
\* time stamp, hi_fraction is 0 and every interpolated coefficient the update
\* uses (sky and sun coefficient in Isol of both albedo branches, the sun
\* coefficient and solarLoadFineFaces of the wall correction, divqrsw of the
\* vegetation) is exactly the value stored for that stamp, wherever the
\* stamp stands in the table
C11_StoredValueAtTimeStamp ==
    \A k \in StampsNow :
        /\ ddOut.done =>
              /\ ddOut.hi_fraction = Zero
              /\ ddOut.Isol = RAdd(stamped.skyViewCoeff[k][0],
                                   stamped.sunViewCoeff[k][0])
              /\ ddOut.IsolVariable = ddOut.Isol
              /\ ddOut.sunViewCoeff = stamped.sunViewCoeff[k][0]
              /\ ddOut.solarLoadFineFaces = stamped.solarLoadFineFaces[k][0]
        /\ vegOut.done =>
              /\ vegOut.hi_fraction = Zero
              /\ vegOut.divqrswi = stamped.divqrsw[k][0]

\* both updates have run at the time of an interior stamp of a table of
\* three stamps whose neighbours store other values
C11_Witness ==
    /\ ddOut.done
    /\ vegOut.done
    /\ Size(sunPosVector) >= 3
    /\ \E k \in StampsNow :
          /\ k - 1 \in DOMAIN sunPosVector
          /\ k + 1 \in DOMAIN sunPosVector
          /\ stamped.sunViewCoeff[k][0] # stamped.sunViewCoeff[k + 1][0]
          /\ stamped.divqrsw[k][0] # stamped.divqrsw[k - 1][0]
          /\ ddOut.sunViewCoeff = stamped.sunViewCoeff[k][0]

\* C19: for a strictly increasing table x and time t, both updates find
\* lo = the largest index with x[lo] <= t and hi = lo + 1 when
\* x[0] <= t < x[last], lo = hi = last when t >= x[last], lo = hi = 0 when
\* t < x[0]; hi_fraction lies in [0, 1); and directAndDiffuse::calculate and
\* simplifiedVegetation::radiation obtain the same lo, hi and hi_fraction
C19_BracketOfTime ==
    LET x == sunPosVector
        t == timeValue
        last == Size(x) - 1
        Right(o) ==
            /\ RLt(t, x[0]) => o.lo = 0 /\ o.hi = 0
            /\ RGe(t, x[last]) => o.lo = last /\ o.hi = last
            /\ (RGe(t, x[0]) /\ RLt(t, x[last])) =>
                  /\ o.lo \in DOMAIN x
                  /\ RGe(t, x[o.lo])
                  /\ \A i \in DOMAIN x : RGe(t, x[i]) => i <= o.lo
                  /\ o.hi = o.lo + 1
            /\ RGe(o.hi_fraction, Zero)
            /\ RLt(o.hi_fraction, One)
    IN  /\ ddOut.done => Right(ddOut)
        /\ vegOut.done => Right(vegOut)
        /\ (ddOut.done /\ vegOut.done) =>
              /\ ddOut.lo = vegOut.lo
              /\ ddOut.hi = vegOut.hi
              /\ ddOut.hi_fraction = vegOut.hi_fraction

\* both updates have bracketed a time strictly between the second and the
\* third stamp of a table
C19_Witness ==
    /\ ddOut.done
    /\ vegOut.done
    /\ Size(sunPosVector) >= 3
    /\ StampsNow = {}
    /\ vegOut.lo = 1
    /\ vegOut.hi = 2
    /\ RGt(vegOut.hi_fraction, Zero)

(***************************************************************************)
(* energy conservation of the long-wave solve                              *)
(***************************************************************************)
\* the lists g of an update describe an isothermal black enclosure: every
\* emissivity 1, one temperature, no external flux, rows of F summing to 1
IsothermalBlackCavity(F, g) ==
    /\ \A i \in DOMAIN F : RowSum(F, i) = One
    /\ \A j \in DOMAIN g.E : g.E[j] = One
    /\ \A j \in DOMAIN g.T4 : g.T4[j] = g.T4[0]
    /\ \A j \in DOMAIN g.qExt : g.qExt[j] = Zero

\* C12: in a long-wave update of a cavity whose emissivities are all 1,
\* whose rows of F sum to 1, whose elements have one temperature and no
\* external flux, the solve on the coordinating process returns q[i] = 0 for
\* every element i, on the variable-emissivity path (LUsolve) and on the
\* constant-emissivity path (LUBacksubstitute), and every partition fills
\* its coarse faces with 0
C12_IsothermalCavityZeroFlux ==
    solver = "viewFactorSky" =>
        /\ (/\ pc[0] = "solved"
            /\ IsothermalBlackCavity(Fmatrix_[0], gath[0]))
           => \A i \in DOMAIN q[0] : q[0][i] = Zero
        /\ \A p \in Procs :
              (/\ pc[p] = "ready"
               /\ calls[p] >= 1
               /\ pc[0] \in {"ready", "solved"}
               /\ calls[0] = calls[p]
               /\ IsothermalBlackCavity(Fmatrix_[0], gath[p]))
              => \A k \in DOMAIN qBf[p] : qBf[p][k] = Zero

\* the coordinating process of a parallel run has back-substituted the
\* system of an isothermal black cavity of at least two elements
C12_Witness ==
    /\ solver = "viewFactorSky"
    /\ case.nProcs = 2
    /\ pc[0] = "solved"
    /\ constOptical_[0]
    /\ ev[0].backsubstituted
    /\ totalNCoarseFaces_[0] >= 2
    /\ IsothermalBlackCavity(Fmatrix_[0], gath[0])
    /\ \A i \in DOMAIN q[0] : q[0][i] = Zero

(***************************************************************************)
(* solarRayTracingGen: for every sun direction a visibility pass over the  *)
(* fine wall faces, then the coefficient tables sunViewCoeff, skyViewCoeff *)
(* and solarLoadFineFaces                                                  *)
(***************************************************************************)
\* sun directions of constant/sunPosVector
MaxDirs == 2

\* fine faces of the wall patch of a partition
MaxFine == 2

\* vectors and the scalar products of the generator
Dot(a, b) == a[1] * b[1] + a[2] * b[2] + a[3] * b[3]

\* mag() of a vector whose length is a whole number
Mag(a) == CHOOSE r \in 0..Dot(a, a) : r * r = Dot(a, a)

\* directions towards the sun: overhead, above and below the horizon
SunDirs == <<<<0, 0, 1>>, <<0, 3, 4>>, <<0, 3, -4>>>>

\* the sites the generator is run on.  Sf is the area vector of the wall
\* faces (out of the air region), sky tells whether a fixed-value sky patch
\* precedes the wall patch, shade which fine-face rays hit the obstruction
\* surface:
\*   plaza   floor open to the sky          canyon  floor in full shadow
\*   court   floor partly in shadow         arcade  ceiling, rays blocked
\*   facade  wall facing the sun's side     edge    faces turned from the
\*                                                  sun on the domain bound
Sites ==
    {[name |-> "plaza", Sf |-> <<0, 0, -1>>, sky |-> TRUE, shade |-> "none"],
     [name |-> "court", Sf |-> <<0, 0, -1>>, sky |-> TRUE, shade |-> "part"],
     [name |-> "canyon", Sf |-> <<0, 0, -1>>, sky |-> FALSE, shade |-> "all"],
     [name |-> "arcade", Sf |-> <<0, 0, 1>>, sky |-> FALSE, shade |-> "all"],
     [name |-> "facade", Sf |-> <<0, -1, 0>>, sky |-> FALSE, shade |-> "none"],
     [name |-> "edge", Sf |-> <<0, 0, 1>>, sky |-> FALSE, shade |-> "none"]}

\* the presence of processor*/constant/kcLAIboundary: everywhere, nowhere,
\* or everywhere but on the last process
Artifacts == {"all", "none", "butLast"}

\* a case: nProcs partitions, each with nFine fine wall faces agglomerated
\* into one coarse face (joined) or into one coarse face each
MakeRayCase(nProcs, nFine, joined, site, nDirs, first, veg, artifact) ==
    [nProcs |-> nProcs,
     nFine |-> nFine,
     agglom |-> [f \in 0..(nFine - 1) |-> IF joined THEN 0 ELSE f],
     site |-> site.name,
     Sf |-> site.Sf,
     \* coarse faces of the fixed-value patch in front of the wall patch
     nSky |-> IF site.sky THEN 1 ELSE 0,
     obstructed |->
        [d \in 0..(nDirs - 1) |-> [p \in 0..(nProcs - 1) |->
            [f \in 0..(nFine - 1) |->
                CASE site.shade = "none" -> FALSE
                  [] site.shade = "all" -> TRUE
                  [] OTHER -> (d + p + f) % 2 = 0]]],
     sunPosVector_y |-> [d \in 0..(nDirs - 1) |-> SunDirs[((first + d) % 3) + 1]],
     IDN_y |-> [d \in 0..(nDirs - 1) |-> Rat(100 * (d + 1), 1)],
     Idif_y |-> [d \in 0..(nDirs - 1) |-> Rat(10 * (d + 1), 1)],
     skyPos |-> <<0, 0, 1>>,
     vegNames |-> veg,
     kcPresent |-> [p \in 0..(nProcs - 1) |->
                       CASE artifact = "all" -> TRUE
                         [] artifact = "none" -> FALSE
                         [] OTHER -> p # nProcs - 1],
     \* kcLAIboundary of sun direction d and coarse face e of all patches
     kcLAIboundary |-> [d \in 0..(nDirs - 1) |->
                          [e \in 0..nFine |-> (d + e) % 2]]]

RayCases ==
    {MakeRayCase(n, nf, jn, site, nd, first, veg, art) :
        n \in 1..MaxProcs, nf \in 1..MaxFine, jn \in BOOLEAN, site \in Sites,
        nd \in 1..MaxDirs, first \in 0..2, veg \in BOOLEAN,
        art \in Artifacts}

RayProcs == 0..(rayCase.nProcs - 1)

\* the four ray lists of a process, empty
NoRays ==
    [rayStartFace |-> <<>>, rayEndFace |-> <<>>,
     rayStartFaceFINE |-> <<>>, rayEndFaceFINE |-> <<>>]

\* main() up to the loop over the sun directions: the ray lists are
\* constructed empty and nVisibleFaceFacesListFINE holds an empty list for
\* every direction
InitRay ==
    /\ RadOff
    /\ SunOff
    /\ VegOff
    /\ FineOff
    /\ TimeOff
    /\ SolarOff
    /\ LaiOff
    /\ rayCase \in RayCases
    /\ rpc = [p \in RayProcs |-> "solarEnd"]
    /\ vectorId = [p \in RayProcs |-> 0]
    /\ rays = [p \in RayProcs |-> NoRays]
    /\ nVisibleFaceFacesListFINE =
          [p \in RayProcs |-> [d \in DOMAIN rayCase.sunPosVector_y |-> EmptyList]]
    /\ written = [p \in RayProcs |-> {}]

\* process o has entered the gatherList/scatterList exchange of pass v
InExchange(o, v) ==
    \/ vectorId[o] > v
    \/ vectorId[o] = v /\ rpc[o] \in {"exchange", "shoot", "count"}

\* process o has entered the ray shooting of pass v
InShoot(o, v) ==
    \/ vectorId[o] > v
    \/ vectorId[o] = v /\ rpc[o] \in {"shoot", "count"}

\* the ray end points of the local coarse and fine faces for sunPos
solarEnd(p) ==
    /\ rpc[p] = "solarEnd"
    /\ rpc' = [rpc EXCEPT ![p] = "exchange"]
    /\ UNCHANGED <<outsideRay, rayCase, vectorId, rays,
                   nVisibleFaceFacesListFINE, written>>

\* "Distribute local coarse Cf and Sf for shooting rays": six gatherList /
\* scatterList pairs; a process leaves them once every process has sent
gatherScatter(p) ==
    /\ rpc[p] = "exchange"
    /\ \A o \in RayProcs : InExchange(o, vectorId[p])
    /\ rpc' = [rpc EXCEPT ![p] = "shoot"]
    /\ UNCHANGED <<outsideRay, rayCase, vectorId, rays,
                   nVisibleFaceFacesListFINE, written>>

\* the local fine faces whose ray towards the sun meets no obstruction, in
\* ascending order
RECURSIVE Unobstructed(_, _, _)
Unobstructed(p, d, n) ==
    IF n = 0 THEN <<>>
    ELSE IF rayCase.obstructed[d][p][n - 1]
         THEN Unobstructed(p, d, n - 1)
         ELSE Append(Unobstructed(p, d, n - 1), n - 1)

\* shootRaysFINE.H: the rays of the local fine faces are tested against the
\* obstruction surface of all processes; the start face of every ray without
\* intersection is appended in local index, its end in global index
shootRaysFINE(p) ==
    /\ rpc[p] = "shoot"
    /\ \A o \in RayProcs : InShoot(o, vectorId[p])
    /\ LET seen == Unobstructed(p, vectorId[p], rayCase.nFine)
       IN  rays' = [rays EXCEPT
               ![p].rayStartFaceFINE = @ \o seen,
               ![p].rayEndFaceFINE =
                   @ \o [i \in DOMAIN seen |-> p * rayCase.nFine + seen[i]]]
    /\ rpc' = [rpc EXCEPT ![p] = "count"]
    /\ UNCHANGED <<outsideRay, rayCase, vectorId,
                   nVisibleFaceFacesListFINE, written>>

\* faulty variant: the ray lists are kept for the next direction
keepRays(r) == r

\* rayStartFace.clear(); rayStartFaceFINE.clear(); rayEndFace.clear();
\* rayEndFaceFINE.clear()
clearRays(r) == NoRays

\* nVisibleFaceFacesFINE[rayStartFaceFINE[i]]++ for every ray of the list
countRays(rayStart, nFine) ==
    [f \in 0..(nFine - 1) |->
        Cardinality({i \in DOMAIN rayStart : rayStart[i] = f})]

\* the end of a pass: the visibility counts of the direction are stored and
\* the ray lists cleared
countVisible(p) ==
    /\ rpc[p] = "count"
    /\ nVisibleFaceFacesListFINE' =
          [nVisibleFaceFacesListFINE EXCEPT ![p][vectorId[p]] =
              countRays(rays[p].rayStartFaceFINE, rayCase.nFine)]
    /\ rays' = [rays EXCEPT ![p] = clearRays(@)]
    /\ vectorId' = [vectorId EXCEPT ![p] = @ + 1]
    /\ rpc' = [rpc EXCEPT ![p] =
                  IF vectorId[p] + 1 < Size(rayCase.sunPosVector_y)
                  THEN "solarEnd" ELSE "check"]
    /\ UNCHANGED <<outsideRay, rayCase, written>>

\* (a & b)/(mag(a)*mag(b) + SMALL); SMALL = 1e-15 only keeps the quotient of
\* a zero vector finite and is below the resolution of the scalars here
cosPhi(a, b) == Rat(Dot(a, b), Mag(a) * Mag(b))

\* radToDeg(acos(min(max(c, -1), 1))) for the cosines of the sites
AcosDeg(c) ==
    CASE c = Rat(1, 1) -> 0
      [] c = Rat(0, 1) -> 90
      [] c = Rat(-1, 1) -> 180

\* Foam::exp(-kcLAI), to three digits
ExpNeg(kcLAI) ==
    CASE kcLAI = 0 -> Rat(1, 1)
      [] kcLAI = 1 -> Rat(368, 1000)
      [] kcLAI = 2 -> Rat(135, 1000)

\* invertOneToMany(nAgglom, agglom)[coarseFaceI]
coarseToFine(agglom, coarseFaceI) == {f \in DOMAIN agglom : agglom[f] = coarseFaceI}

\* max(agglom) + 1
nAgglomOf(agglom) == 1 + CHOOSE m \in {agglom[f] : f \in DOMAIN agglom} :
                            \A f \in DOMAIN agglom : agglom[f] <= m

\* nVisibleFaceFacesListFINE_avg of coarse face j: the visibility counts of
\* its fine faces weighted by their share of the area of the coarse face
nVisibleFaceFacesListFINE_avg(c, nVisible, j) ==
    LET fineFaces == coarseToFine(c.agglom, j)
    IN  RSum([f \in 0..(c.nFine - 1) |->
                IF f \in fineFaces
                THEN RDiv(RMul(Rat(nVisible[f], 1), Rat(Mag(c.Sf), 1)),
                          Rat(Cardinality(fineFaces) * Mag(c.Sf), 1))
                ELSE Zero], c.nFine)

\* faulty variant: the vegetation term is added whenever the face looks
\* towards the sun
AttenuatedAlways(veg, kcLAI, cosine) == RLt(cosine, Zero)

\* `vegNames.size()>0` and `kcLAIboundaryList[vectorId][faceNoAll]-0>SMALL
\* && cosPhi < 0`
Attenuated(veg, kcLAI, cosine) == veg /\ kcLAI > 0 /\ RLt(cosine, Zero)

\* sunViewCoeff[vectorId][faceNoAll] of coarse wall face j
sunViewCoeffOf(c, nVisible, d, j) ==
    LET avg == nVisibleFaceFacesListFINE_avg(c, nVisible, j)
        \* localCoarseSf: the area vector of the coarse face
        cosine == cosPhi([i \in 1..3 |->
                            Cardinality(coarseToFine(c.agglom, j)) * c.Sf[i]],
                         c.sunPosVector_y[d])
        kcLAI == c.kcLAIboundary[d][c.nSky + j]
        direct == RMul(RMul(avg, RMag(cosine)), c.IDN_y[d])
    IN  IF Attenuated(c.vegNames, kcLAI, cosine)
        THEN RAdd(direct,
                  RMul(RMul(RMul(RSub(One, avg), RMag(cosine)), c.IDN_y[d]),
                       ExpNeg(kcLAI)))
        ELSE direct

\* solarLoadFineFaces[vectorId][fineFaceNo + faceI] of fine face f
solarLoadFineFacesOf(c, nVisible, d, f) ==
    LET j == c.agglom[f]
        cosine == cosPhi(c.Sf, c.sunPosVector_y[d])
        coarse == cosPhi([i \in 1..3 |->
                            Cardinality(coarseToFine(c.agglom, j)) * c.Sf[i]],
                         c.sunPosVector_y[d])
        kcLAI == c.kcLAIboundary[d][c.nSky + j]
    IN  IF Attenuated(c.vegNames, kcLAI, coarse) /\ nVisible[f] = 0
        THEN RMul(RMul(RMag(cosine), c.IDN_y[d]), ExpNeg(kcLAI))
        ELSE RMul(RMul(Rat(nVisible[f], 1), RMag(cosine)), c.IDN_y[d])

\* skyViewCoeff[vectorId][faceNoAll] of a coarse wall face
skyViewCoeffOf(c, d) ==
    LET deg == AcosDeg(cosPhi(c.Sf, c.skyPos))
        degAngleBetween == IF deg > 90 /\ deg <= 180 THEN 90 - (deg - 90) ELSE deg
    IN  RMul(RSub(One, RMul(Rat(1, 2), Rat(degAngleBetween, 90))), c.Idif_y[d])

\* the three tables of a process; the entries of the coarse faces of the
\* fixed-value patch keep their initial 0
CoefficientTables(c, nVisibleList) ==
    LET nWall == nAgglomOf(c.agglom)
        D == DOMAIN c.sunPosVector_y
    IN  [sunViewCoeff |->
            [d \in D |-> [e \in 0..(c.nSky + nWall - 1) |->
                IF e < c.nSky THEN Zero
                ELSE sunViewCoeffOf(c, nVisibleList[d], d, e - c.nSky)]],
         skyViewCoeff |->
            [d \in D |-> [e \in 0..(c.nSky + nWall - 1) |->
                IF e < c.nSky THEN Zero ELSE skyViewCoeffOf(c, d)]],
         solarLoadFineFaces |->
            [d \in D |-> [f \in 0..(c.nFine - 1) |->
                solarLoadFineFacesOf(c, nVisibleList[d], d, f)]]]

\* faulty variant: the header of kcLAIboundary is not looked at
kcLAIboundaryUnchecked(c, p) == FALSE

\* `if (vegNames.size()>0 && !kcLAIboundaryList.typeHeaderOk())`
kcLAIboundaryMissing(c, p) == c.vegNames /\ ~c.kcPresent[p]

\* FatalError ends the run on every process
AbortRay == rpc' = [o \in RayProcs |-> "aborted"]

\* main() after the visibility passes: the kcLAIboundary check, the
\* coefficient loop and the three write() calls
coefficients(p) ==
    /\ rpc[p] = "check"
    /\ IF kcLAIboundaryMissing(rayCase, p)
       THEN AbortRay /\ UNCHANGED written
       ELSE /\ written' = [written EXCEPT ![p] =
                   {CoefficientTables(rayCase, nVisibleFaceFacesListFINE[p])}]
            /\ rpc' = [rpc EXCEPT ![p] = "done"]
    /\ UNCHANGED <<outsideRay, rayCase, vectorId, rays, nVisibleFaceFacesListFINE>>

NextRay ==
    \/ \E p \in RayProcs : solarEnd(p)
    \/ \E p \in RayProcs : gatherScatter(p)
    \/ \E p \in RayProcs : shootRaysFINE(p)
    \/ \E p \in RayProcs : countVisible(p)
    \/ \E p \in RayProcs : coefficients(p)

SpecRay == InitRay /\ [][NextRay]_vars

\* the process runs (it was not ended by a FatalError)
Running(p) == rpc[p] # "aborted"

\* the ray lists of process p hold nothing of an earlier direction when a
\* pass starts, and the counts stored for a finished direction d are those
\* of the rays of direction d alone
RaysOfOwnPass(p) ==
    /\ rpc[p] \in {"solarEnd", "exchange", "shoot"} => rays[p] = NoRays
    /\ \A d \in DOMAIN rayCase.sunPosVector_y :
          d < vectorId[p] =>
              nVisibleFaceFacesListFINE[p][d] =
                  [f \in 0..(rayCase.nFine - 1) |->
                      IF rayCase.obstructed[d][p][f] THEN 0 ELSE 1]

\* C13 as stated: the visibility pass of sun direction n has completed on
\* all processes (its collectives done, its counts stored) before the pass
\* of direction n+1 begins on any process; the ray lists are empty at the
\* start of every pass and no ray of direction n is counted for n+1
C13_PassCompleteEverywhere ==
    \A p \in RayProcs : Running(p) =>
        /\ \A o \in RayProcs : vectorId[o] >= vectorId[p]
        /\ RaysOfOwnPass(p)

\* C13, amended: on every process the pass of direction n has completed
\* (counts stored, ray lists cleared) before that process begins the pass of
\* n+1, and a process is past the first gatherList/scatterList exchange of a
\* pass only when every process has completed the pass before; the ray lists
\* are empty at the start of every pass and no ray of direction n is counted
\* for n+1
C13_PassCompleteBeforeExchange ==
    \A p \in RayProcs : Running(p) =>
        /\ rpc[p] \in {"shoot", "count"} =>
              \A o \in RayProcs : vectorId[o] >= vectorId[p]
        /\ rpc[p] \in {"check", "done"} =>
              \A o \in RayProcs : vectorId[o] >= vectorId[p] - 1
        /\ RaysOfOwnPass(p)

\* process 1 starts its second pass with empty ray lists after a first pass
\* that found a ray, process 0 is already waiting in the exchange
C13_Witness ==
    /\ rayCase.nProcs = 2
    /\ vectorId[0] = 1
    /\ rpc[0] = "exchange"
    /\ vectorId[1] = 1
    /\ rpc[1] = "solarEnd"
    /\ rays[1] = NoRays
    /\ \E f \in DOMAIN nVisibleFaceFacesListFINE[1][0] :
          nVisibleFaceFacesListFINE[1][0][f] = 1
    /\ \E f \in 0..(rayCase.nFine - 1) : rayCase.obstructed[1][1][f]

\* a vegetation region is configured and process p finds no kcLAIboundary
VegetationWithoutLAI(p) == rayCase.vegNames /\ ~rayCase.kcPresent[p]

\* C14: with a vegetation region configured and kcLAIboundary missing the
\* generator ends in a fatal error and writes none of sunViewCoeff,
\* skyViewCoeff and solarLoadFineFaces: a process that misses the file is
\* never past the check other than aborted and never writes, and when the
\* file is missing everywhere no process writes
C14_NoTablesWithoutLAI ==
    /\ \A p \in RayProcs : VegetationWithoutLAI(p) =>
          /\ written[p] = {}
          /\ rpc[p] # "done"
    /\ (\A p \in RayProcs : VegetationWithoutLAI(p)) =>
          \A o \in RayProcs : written[o] = {}

\* the visibility passes are over, the check has found kcLAIboundary
\* missing and the run is aborted with nothing written
C14_Witness ==
    /\ \A p \in RayProcs : VegetationWithoutLAI(p)
    /\ rayCase.nProcs = 2
    /\ \A p \in RayProcs :
          /\ vectorId[p] = Size(rayCase.sunPosVector_y)
          /\ rpc[p] = "aborted"
          /\ written[p] = {}

\* the coarse wall faces of a process
CoarseFaces == 0..(nAgglomOf(rayCase.agglom) - 1)

\* no ray of a fine face of coarse face j got through in direction d
FullyShadowed(p, d, j) ==
    \A f \in coarseToFine(rayCase.agglom, j) :
        /\ rayCase.obstructed[d][p][f]
        /\ nVisibleFaceFacesListFINE[p][d][f] = 0

\* no vegetation region, or kcLAIboundary of the face is not positive
NoAttenuation(d, j) ==
    \/ ~rayCase.vegNames
    \/ rayCase.kcLAIboundary[d][rayCase.nSky + j] <= 0

\* C17: for any sun direction and any coarse element all of whose fine-face
\* sun rays are obstructed, when no vegetation attenuation applies, the
\* written sunViewCoeff of the element is 0 and so is every
\* solarLoadFineFaces entry of its fine faces
C17_ShadowedElementZero ==
    \A p \in RayProcs : \A t \in written[p] :
        \A d \in DOMAIN rayCase.sunPosVector_y : \A j \in CoarseFaces :
            FullyShadowed(p, d, j) /\ NoAttenuation(d, j) =>
                /\ t.sunViewCoeff[d][rayCase.nSky + j] = Zero
                /\ \A f \in coarseToFine(rayCase.agglom, j) :
                      t.solarLoadFineFaces[d][f] = Zero

\* a shadowed floor under a vegetation region whose kcLAIboundary value is
\* 0 there, the sun overhead: the tables are written with 0
C17_Witness ==
    \E p \in RayProcs : \E t \in written[p] :
        \E d \in DOMAIN rayCase.sunPosVector_y : \E j \in CoarseFaces :
            /\ FullyShadowed(p, d, j)
            /\ rayCase.vegNames
            /\ rayCase.kcLAIboundary[d][rayCase.nSky + j] = 0
            /\ RLt(cosPhi(rayCase.Sf, rayCase.sunPosVector_y[d]), Zero)
            /\ Cardinality(coarseToFine(rayCase.agglom, j)) = 2
            /\ t.sunViewCoeff[d][rayCase.nSky + j] = Zero

\* every fine face of coarse face j has its ray towards the sun counted
SunExposed(p, d, j) ==
    \A f \in coarseToFine(rayCase.agglom, j) :
        nVisibleFaceFacesListFINE[p][d][f] = 1

\* cos(theta) of the incoming ray and the outward normal of the element,
\* which is opposite to the area vector Sf of the boundary face, clipped to
\* zero below the horizon of the element
ClippedCosine(Sf, sunPos) ==
    LET c == RNeg(cosPhi(Sf, sunPos))
    IN  IF RGt(c, Zero) THEN c ELSE Zero

\* C18: for an element whose sun ray is unobstructed, with no vegetation,
\* the written sun coupling coefficient is cos(theta) * I_direct, clipped to
\* zero below the horizon: 0 for a surface that faces away from the sun,
\* I_direct for a flat horizontal element with the sun overhead
C18_CosineClippedAtHorizon ==
    \A p \in RayProcs : \A t \in written[p] :
        \A d \in DOMAIN rayCase.sunPosVector_y : \A j \in CoarseFaces :
            SunExposed(p, d, j) /\ ~rayCase.vegNames =>
                t.sunViewCoeff[d][rayCase.nSky + j] =
                    RMul(ClippedCosine(rayCase.Sf, rayCase.sunPosVector_y[d]),
                         rayCase.IDN_y[d])

\* ---------------------------------------------------------------------
\* The leaf temperature iteration of simplifiedVegetation::calculate and
\* the grass temperature iteration of simpleGrass::calculate
\* ---------------------------------------------------------------------

\* iterations of the loop `for (i=1; i<=maxIter; i++)` (100 in the code)
MaxIter == 3

\* scalar Tl_min = 250.0, Tg_min = 250.0
Tl_min == 250

\* scalar Tl_max = 400.0, Tg_max = 400.0
Tl_max == 400

\* the cells of the vegetation region, or the faces of the grass patch
VegCells == {"a", "b"}

\* what an iteration adds to the air temperature to get the candidate:
\* (Rn - Qlat)*ra/(2 rhoa cpa LAD) for a leaf,
\* (Qr2surrounding + Qr2substrate + Qs_abs - Qlat)/(h_ch*LAI_) for grass
Excess ==
    {[a |-> 0, b |-> 0], [a |-> -100, b |-> 0],
     [a |-> 10, b |-> 150], [a |-> -10, b |-> 100]}

\* the runs: the model, the air temperature T, the relaxation factor, the
\* cells with LAD > 10*SMALL and the temperature field at the start
VegCases ==
    [model : {"simplifiedVegetation", "simpleGrass"},
     T : {Rat(260, 1), Rat(300, 1)},
     relax : {Rat(1, 2), One},
     residualControl : {Rat(1, 100)},
     LAD : {[a |-> TRUE, b |-> TRUE], [a |-> TRUE, b |-> FALSE]},
     start : {Rat(0, 1), Rat(300, 1)}]

\* `volScalarField new_Tl("new_Tl", Tl_)`; the grass model takes Tg from
\* the cells next to the patch
InitVeg ==
    /\ RadOff
    /\ SunOff
    /\ RayOff
    /\ FineOff
    /\ TimeOff
    /\ SolarOff
    /\ LaiOff
    /\ vegCase \in VegCases
    /\ vpc = "candidate"
    /\ iterI = 1
    /\ Tl_ = [c \in VegCells |-> vegCase.start]
    /\ new_Tl = [c \in VegCells |-> vegCase.start]
    /\ rawTl = [c \in VegCells |-> vegCase.start]
    /\ boundTl = FALSE
    /\ warned = 0
    /\ maxRelError = Zero
    /\ vegInfo = {}

\* min(s1, s2) and max(s1, s2) of two scalars
minScalar(s1, s2) == IF RLt(s1, s2) THEN s1 ELSE s2

maxScalar(s1, s2) == IF RGt(s1, s2) THEN s1 ELSE s2

\* gMax of the values of a field
gMax(field) ==
    CHOOSE m \in {field[c] : c \in DOMAIN field} :
        \A c \in DOMAIN field : RGe(m, field[c])

gMin(field) ==
    CHOOSE m \in {field[c] : c \in DOMAIN field} :
        \A c \in DOMAIN field : RGe(field[c], m)

\* the test `(x < Tl_min) or (x > Tl_max)`
OutOfBounds(x) == RLt(x, Rat(Tl_min, 1)) \/ RGt(x, Rat(Tl_max, 1))

\* faulty variant: only the upper bound is applied
clampAbove(x) == minScalar(x, Rat(Tl_max, 1))

\* x = min(x, Tl_max); x = max(x, Tl_min)
clamp(x) == maxScalar(minScalar(x, Rat(Tl_max, 1)), Rat(Tl_min, 1))

\* (1 - relax)*old + relax*new
Relaxed(old, new) ==
    CHOOSE r \in {RAdd(kept, taken) :
                     kept \in {RMul(RSub(One, vegCase.relax), old)},
                     taken \in {RMul(vegCase.relax, new)}} : TRUE

\* maxError/gMax(mag(new)) < residualControl
RelError(old, new) ==
    CHOOSE r \in {RDiv(maxError, maxNew) :
                     maxError \in {gMax([c \in VegCells |->
                                            RMag(RSub(new[c], old[c]))])},
                     maxNew \in {gMax([c \in VegCells |-> RMag(new[c])])}} :
        TRUE

Converged(old, new) ==
    \E r \in {RelError(old, new)} : RLt(r, vegCase.residualControl)

\* faulty variant: the loop runs once more
withinOneMore(i) == i <= MaxIter + 1

\* the loop condition `i<=maxIter`
withinMaxIter(i) == i <= MaxIter

\* the loop over the cells of one iteration of simplifiedVegetation: a
\* cell with LAD > 10*SMALL gets its new leaf temperature, bounded when it
\* is out of [Tl_min, Tl_max]; the other cells keep new_Tl
leafCandidates ==
    /\ vegCase.model = "simplifiedVegetation"
    /\ vpc = "candidate"
    /\ \E e \in Excess :
          LET raw == [c \in VegCells |->
                         IF vegCase.LAD[c]
                         THEN RAdd(vegCase.T, Rat(e[c], 1)) ELSE new_Tl[c]]
          IN  /\ rawTl' = raw
              /\ new_Tl' = [c \in VegCells |->
                               IF vegCase.LAD[c] /\ OutOfBounds(raw[c])
                               THEN clamp(raw[c]) ELSE raw[c]]
              /\ boundTl' = \E c \in VegCells :
                               vegCase.LAD[c] /\ OutOfBounds(raw[c])
    /\ vpc' = "test"
    /\ UNCHANGED <<outsideVeg, vegCase, iterI, Tl_, warned, maxRelError,
                   vegInfo>>

\* the warning, the convergence test and the relaxation of Tl_, which is
\* updated before the loop is left; after the loop one Info line gives the
\* residuals and the value of i, which is maxIter + 1 when the loop ran out
leafUpdate ==
    /\ vegCase.model = "simplifiedVegetation"
    /\ vpc = "test"
    /\ warned' = IF boundTl THEN warned + 1 ELSE warned
    /\ boundTl' = FALSE
    /\ Tl_' = [c \in VegCells |-> Relaxed(Tl_[c], new_Tl[c])]
    /\ \E r \in {RelError(Tl_, new_Tl)}, conv \in {Converged(Tl_, new_Tl)} :
          /\ maxRelError' = r
          /\ iterI' = IF conv THEN iterI ELSE iterI + 1
          /\ IF conv \/ ~withinMaxIter(iterI + 1)
             THEN /\ vpc' = "done"
                  /\ vegInfo' = vegInfo \cup
                         {[level |-> "info", line |-> "iteration i",
                           i |-> iterI],
                          [level |-> "info", line |-> "No Iterations",
                           i |-> IF conv THEN iterI ELSE iterI + 1]}
             ELSE /\ vpc' = "candidate"
                  /\ vegInfo' = vegInfo \cup
                         {[level |-> "info", line |-> "iteration i",
                           i |-> iterI]}
    /\ UNCHANGED <<outsideVeg, vegCase, new_Tl, rawTl>>

\* one iteration of simpleGrass up to the bounding: Tg is initialised from
\* the air temperature when it is not set, Tg_new is bounded as a whole
\* when one of its values is out of [Tg_min, Tg_max]
grassCandidates ==
    /\ vegCase.model = "simpleGrass"
    /\ vpc = "candidate"
    /\ Tl_' = IF iterI = 1 /\ ~RGt(gMin(Tl_), Zero)
              THEN [c \in VegCells |-> vegCase.T] ELSE Tl_
    /\ \E e \in Excess :
          LET raw == [c \in VegCells |-> RAdd(vegCase.T, Rat(e[c], 1))]
              out == OutOfBounds(gMin(raw)) \/ OutOfBounds(gMax(raw))
          IN  /\ rawTl' = raw
              /\ new_Tl' = IF out THEN [c \in VegCells |-> clamp(raw[c])]
                           ELSE raw
              /\ boundTl' = out
    /\ vpc' = "test"
    /\ UNCHANGED <<outsideVeg, vegCase, iterI, warned, maxRelError, vegInfo>>

\* the warning and the convergence test of simpleGrass; Tg is relaxed only
\* when the loop goes on; nothing is printed after the loop (debug_ is off)
grassUpdate ==
    /\ vegCase.model = "simpleGrass"
    /\ vpc = "test"
    /\ warned' = IF boundTl THEN warned + 1 ELSE warned
    /\ boundTl' = FALSE
    /\ \E r \in {RelError(Tl_, new_Tl)}, conv \in {Converged(Tl_, new_Tl)} :
          /\ maxRelError' = r
          /\ IF conv
             THEN vpc' = "done" /\ UNCHANGED <<iterI, Tl_>>
             ELSE /\ Tl_' = [c \in VegCells |-> Relaxed(Tl_[c], new_Tl[c])]
                  /\ iterI' = iterI + 1
                  /\ vpc' = IF withinMaxIter(iterI + 1) THEN "candidate"
                            ELSE "done"
    /\ vegInfo' = vegInfo \cup
           {[level |-> "info", line |-> "iteration i", i |-> iterI]}
    /\ UNCHANGED <<outsideVeg, vegCase, new_Tl, rawTl>>

NextVeg ==
    \/ leafCandidates
    \/ leafUpdate
    \/ grassCandidates
    \/ grassUpdate

SpecVeg == InitVeg /\ [][NextVeg]_vars

\* the cell has a candidate temperature: every face of the grass patch,
\* every cell with leaf area of the vegetation region
HasCandidate(c) == vegCase.model = "simpleGrass" \/ vegCase.LAD[c]

\* C16: in both iterations every candidate temperature outside [250, 400]
\* is clamped into the range and a warning is due, the loop goes on (its
\* only positions are the candidates, the test and the regular end), and
\* every candidate that enters the convergence test and the relaxation lies
\* in [250, 400]
C16_CandidatesClamped ==
    /\ vpc \in {"candidate", "test", "done"}
    /\ vpc = "test" =>
          \A c \in VegCells : HasCandidate(c) =>
              /\ RGe(new_Tl[c], Rat(Tl_min, 1))
              /\ RGe(Rat(Tl_max, 1), new_Tl[c])
              /\ OutOfBounds(rawTl[c]) => boundTl
              /\ ~OutOfBounds(rawTl[c]) => new_Tl[c] = rawTl[c]

\* a candidate below 250 K was clamped to 250 K, the warning was printed
\* and the loop has gone on to its second iteration
C16_Witness ==
    /\ vpc = "candidate"
    /\ iterI = 2
    /\ warned = 1
    /\ \E c \in VegCells :
          /\ HasCandidate(c)
          /\ RLt(rawTl[c], Rat(Tl_min, 1))
          /\ new_Tl[c] = Rat(Tl_min, 1)

\* ---------------------------------------------------------------------
\* viewFactorSky::calculate between the fine faces and the coarse faces:
\* the local averages and the scatter of q to the fine faces
\* ---------------------------------------------------------------------

\* what an uninitialised entry of a labelList may hold besides a label of
\* the list it indexes
Wild == -1

\* the agglomerations of a patch of n fine faces.  singleCellFvMesh only
\* rejects ids outside 0..n-1, so ids that no face maps to can occur
AgglomPatterns == {"joined", "split", "reversed", "last", "ends"}

Agglom(pattern, n) ==
    [f \in 0..(n - 1) |->
        CASE pattern = "joined" -> 0
          [] pattern = "split" -> f
          [] pattern = "reversed" -> n - 1 - f
          [] pattern = "last" -> n - 1
          [] OTHER -> IF f = 0 THEN 0 ELSE n - 1]

\* the agglomeration ids in the order in which the fine faces 0..n-1 first
\* name them
RECURSIVE FirstSeen(_, _)
FirstSeen(agglom, n) ==
    IF n = 0 THEN <<>>
    ELSE LET prev == FirstSeen(agglom, n - 1)
         IN  IF \E i \in DOMAIN prev : prev[i] = agglom[n - 1]
             THEN prev ELSE Append(prev, agglom[n - 1])

\* coarseMesh_.patchFaceMap()[patchID]: set to size max(agglom)+1, filled
\* for the coarse faces in the order of FirstSeen; the entries behind them
\* are never assigned
patchFaceMap(agglom, unassigned) ==
    LET seen == FirstSeen(agglom, Size(agglom))
    IN  [coarseI \in 0..(nAgglomOf(agglom) - 1) |->
            IF coarseI < Len(seen) THEN seen[coarseI + 1] ELSE unassigned]

\* coarseMesh_.boundaryMesh()[patchID].size()
coarsePatchSize(agglom) == Len(FirstSeen(agglom, Size(agglom)))

\* an agglomeration id below max(agglom)+1 that no fine face maps to
EmptyElements(agglom) ==
    {e \in 0..(nAgglomOf(agglom) - 1) : coarseToFine(agglom, e) = {}}

pow4(x) == x * x * x * x

\* the cases: every process has one selected patch of nFine faces with its
\* own agglomeration; the fine faces have different temperatures
MakeFineCase(nProcs, nFine, pattern, unassigned) ==
    [nProcs |-> nProcs,
     nFine |-> nFine,
     finalAgglom_ |-> [p \in 0..(nProcs - 1) |-> Agglom(pattern[p], nFine)],
     coarsePatchFace |-> [p \in 0..(nProcs - 1) |->
         patchFaceMap(Agglom(pattern[p], nFine), unassigned[p])],
     T |-> [p \in 0..(nProcs - 1) |-> [f \in 0..(nFine - 1) |->
               p * nFine + f + 1]]]

FineCases ==
    UNION {{MakeFineCase(n, nf, pattern, unassigned) :
                pattern \in [0..(n - 1) -> AgglomPatterns],
                unassigned \in [0..(n - 1) -> {Wild} \cup (0..(nf - 1))]} :
           n \in 1..MaxProcs, nf \in 1..MaxFine}

FineProcs == 0..(fineCase.nProcs - 1)

FineFaces == 0..(fineCase.nFine - 1)

\* the nLocalCoarseFaces_ that initialise() computes: the sizes of the coarse patches
nLocalCoarse ==
    [p \in FineProcs |-> coarsePatchSize(fineCase.finalAgglom_[p])]

InitFine ==
    /\ RadOff
    /\ SunOff
    /\ RayOff
    /\ VegOff
    /\ TimeOff
    /\ SolarOff
    /\ LaiOff
    /\ fineCase \in FineCases
    /\ fpc = [p \in FineProcs |-> "average"]
    /\ T4ave = [p \in FineProcs |-> EmptyList]
    /\ qFine = EmptyList
    /\ qrp = [p \in FineProcs |-> [f \in FineFaces |-> Zero]]
    /\ nWrites = [p \in FineProcs |-> [f \in FineFaces |-> 0]]
    /\ globCoarseId = [p \in FineProcs |-> 0]
    /\ overrun = [p \in FineProcs |-> FALSE]

\* the fine faces the loop `forAll(coarseToFine, coarseI)` works on in
\* round coarseI; none when coarsePatchFace[coarseI] is no id of the list
fineFacesOf(p, coarseI) ==
    LET coarseFaceID == fineCase.coarsePatchFace[p][coarseI]
    IN  IF coarseFaceID = Wild THEN {}
        ELSE coarseToFine(fineCase.finalAgglom_[p], coarseFaceID)

\* a round of the loop that indexes coarseToFine with an unassigned entry
\* that is no id of it, or that adds to T4ave[coarseI] behind its end
AveragesOverrun(p) ==
    \E coarseI \in DOMAIN fineCase.coarsePatchFace[p] :
        \/ fineCase.coarsePatchFace[p][coarseI] = Wild
        \/ /\ coarseI >= coarsePatchSize(fineCase.finalAgglom_[p])
           /\ fineFacesOf(p, coarseI) # {}

\* T4ave[coarseI] += pow4(Tp[facei])*sf[facei]/area over the fine faces of
\* the coarse face, all fine faces having area 1
T4aveOf(p) ==
    [coarseI \in 0..(coarsePatchSize(fineCase.finalAgglom_[p]) - 1) |->
        LET fineFaces == fineFacesOf(p, coarseI)
        IN  RSum([f \in FineFaces |->
                    IF f \in fineFaces
                    THEN Rat(pow4(fineCase.T[p][f]), Cardinality(fineFaces))
                    ELSE Zero], fineCase.nFine)]

\* the local averages of the selected patch.  Past the end of a list the
\* process goes on with its memory damaged or is ended by the system
localAverages(p) ==
    /\ fpc[p] = "average"
    /\ T4ave' = [T4ave EXCEPT ![p] = T4aveOf(p)]
    /\ IF AveragesOverrun(p)
       THEN /\ overrun' = [overrun EXCEPT ![p] = TRUE]
            /\ \E next \in {"gather", "crashed"} :
                  fpc' = [fpc EXCEPT ![p] = next]
       ELSE /\ fpc' = [fpc EXCEPT ![p] = "gather"]
            /\ UNCHANGED overrun
    /\ UNCHANGED <<outsideFine, fineCase, qFine, qrp, nWrites, globCoarseId>>

\* the averages of all processes in the flat numbering
compactCoarseT4 ==
    [g \in 0..(globalSize(nLocalCoarse) - 1) |->
        LET p == CHOOSE o \in FineProcs :
                    /\ offset(nLocalCoarse, o) <= g
                    /\ g < offset(nLocalCoarse, o) + nLocalCoarse[o]
        IN  T4ave[p][g - offset(nLocalCoarse, p)]]

\* the distribution of the averages, the solve on the master and the
\* listCombine calls, for black faces that do not see each other
solveFine ==
    /\ \A p \in FineProcs : fpc[p] = "gather"
    /\ LET m == globalSize(nLocalCoarse)
           none == [g \in 0..(m - 1) |-> Zero]
           black == [g \in 0..(m - 1) |-> One]
       IN  qFine' = LUsolve(CoeffMatrixLW(ZeroMatrix(m), black, m),
                            SourceVariableLW(ZeroMatrix(m), compactCoarseT4,
                                             none, m), m).q
    /\ fpc' = [p \in FineProcs |-> "scatter"]
    /\ UNCHANGED <<outsideFine, fineCase, T4ave, qrp, nWrites, globCoarseId,
                   overrun>>

\* q[globalCoarse], or the value found behind the end of q
qAt(globalCoarse) ==
    IF globalCoarse \in DOMAIN qFine THEN qFine[globalCoarse] ELSE NaN

\* the rounds of the scatter loop that assign q[globalCoarse] to fine
\* face facei, in ascending order
roundsOf(p, facei) ==
    {coarseI \in DOMAIN fineCase.coarsePatchFace[p] :
        facei \in fineFacesOf(p, coarseI)}

\* a round of the scatter loop that indexes coarseToFine with an entry that
\* is no id of it, or that reads q behind its end
ScatterOverrun(p) ==
    \E coarseI \in DOMAIN fineCase.coarsePatchFace[p] :
        \/ fineCase.coarsePatchFace[p][coarseI] = Wild
        \/ /\ fineFacesOf(p, coarseI) # {}
           /\ toGlobal(nLocalCoarse, p, coarseI) \notin DOMAIN qFine

\* globalNumbering.toGlobal(Pstream::myProcNo(), globCoarseId) in round
\* coarseI, globCoarseId being advanced once per round
globalCoarseOf(p, coarseI) == toGlobal(nLocalCoarse, p, coarseI)

\* "Scatter q and fill qr": qrp[facei] = q[globalCoarse] for the fine faces
\* of every round; the last round that names a face leaves its value
scatterFine(p) ==
    /\ fpc[p] = "scatter"
    /\ qrp' = [qrp EXCEPT ![p] = [facei \in FineFaces |->
          LET rounds == roundsOf(p, facei)
          IN  IF rounds = {} THEN qrp[p][facei]
              ELSE qAt(globalCoarseOf(p,
                          CHOOSE r \in rounds : \A o \in rounds : o <= r))]]
    /\ nWrites' = [nWrites EXCEPT ![p] = [facei \in FineFaces |->
          Cardinality(roundsOf(p, facei))]]
    /\ globCoarseId' = [globCoarseId EXCEPT ![p] =
          Size(fineCase.coarsePatchFace[p])]
    /\ IF ScatterOverrun(p)
       THEN /\ overrun' = [overrun EXCEPT ![p] = TRUE]
            /\ \E next \in {"done", "crashed"} :
                  fpc' = [fpc EXCEPT ![p] = next]
       ELSE /\ fpc' = [fpc EXCEPT ![p] = "done"]
            /\ UNCHANGED overrun
    /\ UNCHANGED <<outsideFine, fineCase, T4ave, qFine>>

NextFine ==
    \/ \E p \in FineProcs : localAverages(p)
    \/ solveFine
    \/ \E p \in FineProcs : scatterFine(p)

SpecFine == InitFine /\ [][NextFine]_vars

\* process p has a coarse element without fine faces
HasEmptyElement(p) == EmptyElements(fineCase.finalAgglom_[p]) # {}

\* C15: a coarse element with zero constituent fine faces is detected and
\* ends the run with a fatal error: a process that has one is never past
\* the local averages other than by that error (no silent continuation) and
\* never indexes a fine-face list or the patch-face map out of range
C15_EmptyElementIsFatal ==
    \A p \in FineProcs : HasEmptyElement(p) =>
        /\ fpc[p] \in {"average", "fatal"}
        /\ ~overrun[p]

\* the index of the coarse face of fine face f in the coarse patch of p
coarseFaceOf(p, f) ==
    LET seen == FirstSeen(fineCase.finalAgglom_[p], fineCase.nFine)
    IN  (CHOOSE i \in DOMAIN seen : seen[i] = fineCase.finalAgglom_[p][f]) - 1

\* C20: after the solve every fine face of the selected patch has been
\* assigned exactly once, with the q of the coarse element it is
\* agglomerated into, so that the fine faces of one coarse element hold the
\* same value; the running coarse counter ends at nLocalCoarseFaces_, and the
\* k-th local element read back is the k-th whose averages were sent
C20_FineFacesGetOwnFlux ==
    \A p \in FineProcs : fpc[p] \in {"done", "crashed"} /\ qFine # EmptyList =>
        /\ \A f \in FineFaces :
              /\ nWrites[p][f] = 1
              /\ qrp[p][f] = qAt(toGlobal(nLocalCoarse, p, coarseFaceOf(p, f)))
              /\ \A o \in FineFaces :
                    fineCase.finalAgglom_[p][o] = fineCase.finalAgglom_[p][f]
                        => qrp[p][o] = qrp[p][f]
        /\ globCoarseId[p] = nLocalCoarse[p]
        /\ \A k \in DOMAIN T4ave[p] :
              qAt(toGlobal(nLocalCoarse, p, k)) =
                  RNeg(RMul(sigma, T4ave[p][k]))

\* C25: after the compact-to-global fill and the max-combine, every global
\* entry of T4, of the emissivity or albedo and of the external flux that a
\* process solves with equals the area-weighted value of the partition that
\* owns the element, for any number of partitions and any sign of the value
C25_GatheredInputsAreOwnersValues ==
    \A p \in Procs : pc[p] = "solved" =>
        /\ solver = "viewFactorSky" => gath[p].T4 = fields.T4
        /\ gath[p].E = IF solver = "viewFactorSky" THEN fields.E ELSE fields.A
        /\ gath[p].qExt = fields.Ho


\* the loop moves on: from the cell loop to the test, from the test to the
\* next iteration or out of the loop
LoopAdvances ==
    /\ vpc \in {"candidate", "test"}
    /\ vpc' \in {"candidate", "test", "done"} \ {vpc}

\* the iteration is one sequential loop, so a step that is possible is
\* taken; every step of NextVeg moves vpc and one is possible until the
\* loop is left, so the condition is the weak fairness of NextVeg
SpecVegFair == SpecVeg /\ WF_vpc(LoopAdvances)

\* the leaf or grass loop was left with the last test below the residual
LeftConverged ==
    vpc = "done" /\ RLt(maxRelError, vegCase.residualControl)

\* the loop was left because the iteration count ran out
LeftAtCeiling ==
    vpc = "done" /\ ~RLt(maxRelError, vegCase.residualControl)

\* C23: the leaf and the grass loop always terminate; they are left at the
\* first iteration whose relative change is below the residual control, and
\* otherwise after exactly maxIter iterations
C23_LoopTerminates ==
    /\ [](LeftAtCeiling => iterI = MaxIter + 1)
    /\ [](LeftConverged => iterI \in 1..MaxIter)
    /\ [][vpc = "test" /\ Converged(Tl_, new_Tl) => vpc' = "done"]_vars
    /\ [][vpc = "test" /\ ~Converged(Tl_, new_Tl) /\ iterI < MaxIter
            => vpc' = "candidate" /\ iterI' = iterI + 1]_vars
    /\ <>(vpc = "done")

C23_Witness == LeftAtCeiling /\ iterI = MaxIter + 1

\* C24: a loop that is left at the ceiling without convergence has surfaced
\* a warning
C24_CeilingIsReported ==
    LeftAtCeiling => \E line \in vegInfo : line.level = "warning"


\* ---------------------------------------------------------------------
\* simpleControlFluid::run and the time loop of the solver

\* the calls of run() and the time indices that are followed
MaxRunCalls == 3

MaxTimeIndex == 5

\* the Time objects at the start: value, timeIndex and deltaT
StartTimes ==
    [constructed : {TRUE}, value : {0, 10}, timeIndex : {0, 2},
     deltaT : {2, 5}]

InitControl ==
    /\ RadOff
    /\ SunOff
    /\ RayOff
    /\ VegOff
    /\ FineOff
    /\ SolarOff
    /\ LaiOff
    /\ tpc = "control"
    /\ runTime \in StartTimes
    /\ simpleControl = [constructed |-> TRUE, initialised_ |-> FALSE,
                        calls |-> 0, criteria |-> FALSE, returned |-> TRUE,
                        looped |-> FALSE, entry |-> runTime]
    /\ plantModel = NoObject
    /\ coupledPatch = NoObject

\* faulty variant: only the index is set
setTimeIndex(t, value, index) == [t EXCEPT !.timeIndex = index]

\* Time::setTime(value, index)
setTime(t, value, index) == [t EXCEPT !.value = value, !.timeIndex = index]

\* Time::setDeltaT(deltaT)
setDeltaT(t, deltaT) == [t EXCEPT !.deltaT = deltaT]

\* Time::loop(): when the run goes on, operator++ adds deltaT to the value
\* and one to the index
loop(t, running) ==
    IF running
    THEN [t EXCEPT !.value = t.value + t.deltaT, !.timeIndex = t.timeIndex + 1]
    ELSE t

\* simpleControlFluid::run(time); criteria is criteriaSatisfied(), running
\* is what Time::run() gives inside runTime.loop()
simpleControlFluidRun ==
    /\ tpc = "control"
    /\ simpleControl.calls < MaxRunCalls
    /\ \E criteria \in BOOLEAN, running \in BOOLEAN :
          LET value == runTime.value
              index == runTime.timeIndex
              called == [simpleControl EXCEPT !.calls = @ + 1,
                                              !.entry = runTime]
          IN  IF simpleControl.initialised_
              THEN IF criteria
                   THEN /\ runTime' = setTime(runTime, value, index + 1)
                        /\ simpleControl' =
                               [called EXCEPT !.criteria = TRUE,
                                              !.looped = FALSE,
                                              !.returned = FALSE]
                   ELSE /\ runTime' = setTime(loop(setDeltaT(runTime, 1),
                                                   running),
                                              value, index + 1)
                        /\ simpleControl' =
                               [called EXCEPT !.criteria = FALSE,
                                              !.looped = running,
                                              !.returned = TRUE]
              ELSE /\ simpleControl' =
                          [called EXCEPT !.initialised_ = TRUE,
                                         !.criteria = FALSE,
                                         !.looped = FALSE,
                                         !.returned = TRUE]
                   /\ UNCHANGED runTime
    /\ UNCHANGED <<outsideTime, tpc, plantModel, coupledPatch>>

\* `while (runTime.loop())` of the solver
runTimeLoop ==
    /\ tpc \in {"control", "plant", "patch"}
    /\ runTime.timeIndex < MaxTimeIndex
    /\ runTime' = loop(runTime, TRUE)
    /\ UNCHANGED <<outsideTime, tpc, simpleControl, plantModel, coupledPatch>>

NextControl ==
    \/ simpleControlFluidRun
    \/ runTimeLoop

SpecControl == InitControl /\ [][NextControl]_vars

\* C27: run() leaves the time value as it was; the first call returns true
\* and keeps the time index, every later call adds exactly one to the index
\* and returns false exactly when the criteria are satisfied
C27_RunKeepsTimeValue ==
    [][simpleControl'.calls = simpleControl.calls + 1 =>
          /\ runTime'.value = runTime.value
          /\ simpleControl.calls = 0 =>
                /\ simpleControl'.returned
                /\ runTime'.timeIndex = runTime.timeIndex
          /\ simpleControl.calls > 0 =>
                /\ runTime'.timeIndex = runTime.timeIndex + 1
                /\ simpleControl'.returned = ~simpleControl'.criteria]_vars

\* a later call that was not converged and whose runTime.loop() moved on
C27_Witness ==
    /\ tpc = "control"
    /\ simpleControl.calls > 1
    /\ simpleControl.looped
    /\ simpleControl.returned
    /\ runTime.value = simpleControl.entry.value
    /\ runTime.timeIndex = simpleControl.entry.timeIndex + 1


\* ---------------------------------------------------------------------
\* grassModel::correct and vegetationModel::correct, which are the same
\* code with grass_ and vegetation_ as the switch (`active` here)

\* the correct() calls that are followed
MaxCorrects == 3

\* grassProperties / vegetationProperties: the switch and solverFreq
PlantDicts == [active : BOOLEAN, solverFreq : {-1, 0, 1, 2, 3}]

\* faulty variant: the entry is taken as it is
asGiven(solverFreq) == solverFreq

\* max(1, solverFreq)
atLeastOne(solverFreq) == IF solverFreq < 1 THEN 1 ELSE solverFreq

\* the model after one of the two constructors and initialise(): the first
\* constructor (no dictionary) leaves the switch off and solverFreq_ at 0,
\* the second reads the switch, turns it off when the file is not read and
\* starts solverFreq_ at 1
constructPlant(withDict, fileRead, dict) ==
    LET switch == withDict /\ fileRead /\ dict.active
        start == IF withDict THEN 1 ELSE 0
    IN  [constructed |-> TRUE,
         active |-> switch,
         solverFreq_ |-> IF switch THEN atLeastOne(dict.solverFreq)
                         ELSE start,
         firstIter_ |-> TRUE,
         corrects |-> 0, calculates |-> 0,
         invoked |-> FALSE, moduloEvaluated |-> FALSE]

InitPlant ==
    /\ RadOff
    /\ SunOff
    /\ RayOff
    /\ VegOff
    /\ FineOff
    /\ SolarOff
    /\ LaiOff
    /\ tpc = "plant"
    /\ runTime \in StartTimes
    /\ simpleControl = NoObject
    /\ plantModel \in {constructPlant(withDict, fileRead, dict) :
                          withDict \in BOOLEAN, fileRead \in BOOLEAN,
                          dict \in PlantDicts}
    /\ coupledPatch = NoObject

\* read(): when regIOobject::read() succeeds the switch and solverFreq_ are
\* taken from the dictionary
read ==
    /\ tpc = "plant"
    /\ \E ok \in BOOLEAN, dict \in PlantDicts :
          plantModel' =
              IF ok
              THEN [plantModel EXCEPT
                        !.active = dict.active,
                        !.solverFreq_ = atLeastOne(dict.solverFreq)]
              ELSE plantModel
    /\ UNCHANGED <<outsideTime, tpc, runTime, simpleControl, coupledPatch>>

\* time_.timeIndex() % solverFreq_ == 0 for a divisor that is not zero
IsMultiple(index, solverFreq) == index % AbsInt(solverFreq) = 0

\* correct(): nothing when the switch is off; calculate() when firstIter_
\* or the time index is a multiple of solverFreq_; a modulo by zero is
\* undefined and may give either answer
correct ==
    /\ tpc = "plant"
    /\ plantModel.corrects < MaxCorrects
    /\ \E undefined \in BOOLEAN :
          LET called == [plantModel EXCEPT !.corrects = @ + 1]
              evaluated == plantModel.active /\ ~plantModel.firstIter_
              multiple == IF plantModel.solverFreq_ = 0 THEN undefined
                          ELSE IsMultiple(runTime.timeIndex,
                                          plantModel.solverFreq_)
          IN  IF ~plantModel.active
              THEN plantModel' = [called EXCEPT !.invoked = FALSE,
                                                !.moduloEvaluated = FALSE]
              ELSE IF plantModel.firstIter_ \/ multiple
              THEN plantModel' = [called EXCEPT !.invoked = TRUE,
                                                !.calculates = @ + 1,
                                                !.moduloEvaluated = evaluated,
                                                !.firstIter_ = FALSE]
              ELSE plantModel' = [called EXCEPT !.invoked = FALSE,
                                                !.moduloEvaluated = evaluated]
    /\ UNCHANGED <<outsideTime, tpc, runTime, simpleControl, coupledPatch>>

NextPlant ==
    \/ read
    \/ correct
    \/ runTimeLoop

SpecPlant == InitPlant /\ [][NextPlant]_vars

\* a step that is a call of correct()
CorrectCalled == plantModel'.corrects = plantModel.corrects + 1

\* the time index is a multiple of solverFreq_, which is at least one
OnSolverFreq ==
    plantModel.solverFreq_ >= 1
        /\ runTime.timeIndex % plantModel.solverFreq_ = 0

\* C28, as stated: calculate() is invoked exactly when the model is active
\* and it is the first correct() call since construction or the time index
\* is a multiple of solverFreq_; solverFreq_ >= 1 when the modulo is
\* evaluated
C28_CalculateOnFirstCall ==
    [][CorrectCalled =>
          /\ plantModel'.invoked <=>
                plantModel.active /\ (plantModel.corrects = 0 \/ OnSolverFreq)
          /\ plantModel'.moduloEvaluated => plantModel.solverFreq_ >= 1]_vars

\* C28, amended: calculate() is invoked exactly when the model is active and
\* calculate() was not invoked since construction or the time index is a
\* multiple of solverFreq_; an inactive model never invokes it; solverFreq_
\* is at least one when the modulo is evaluated
C28_CalculateUntilFirstDone ==
    [][CorrectCalled =>
          /\ plantModel'.invoked <=>
                plantModel.active
                    /\ (plantModel.calculates = 0 \/ OnSolverFreq)
          /\ plantModel'.moduloEvaluated => plantModel.solverFreq_ >= 1]_vars

\* the model was switched on after a correct() call that did nothing, and
\* calculate() ran at a time index that is no multiple of solverFreq_
C28_Witness ==
    /\ tpc = "plant"
    /\ plantModel.corrects > 1
    /\ plantModel.calculates = 1
    /\ plantModel.invoked
    /\ plantModel.solverFreq_ > 1
    /\ runTime.timeIndex % plantModel.solverFreq_ # 0


\* ---------------------------------------------------------------------
\* CFDHAMsolidTemperatureCoupledMixedFvPatchScalarField::updateCoeffs: the
\* refresh of the radiation fluxes of the neighbour patch

\* the calls of updateCoeffs() that are followed
MaxUpdates == 4

\* `time.value() - timeOfLastRadUpdate >= 600.0`
RadUpdatePeriod == 600

\* the Time objects at the start; deltaT is the deltaT of controlDict
PatchTimes ==
    [constructed : {TRUE}, value : {-5, 0, 1}, timeIndex : {0},
     deltaT : {2, 300}]

\* the patches: with or without a qs field of the neighbour, covered with
\* grass or not
PatchKinds == [qsNbrName_ : {"qs", "none"}, grassCovered : BOOLEAN]

\* exp(-beta*LAI)*(1-albedoSoil) of the grass layer
GrassFactor == Rat(1, 2)

\* the fluxes of the neighbour patch at a call, and 6*(TgNbr-Tp)
NbrFluxes == [qr : {Rat(1, 1)}, qs : {Rat(4, 1), Rat(8, 1)},
              grassQr : {Rat(6, 1)}]

InitPatch ==
    /\ RadOff
    /\ SunOff
    /\ RayOff
    /\ VegOff
    /\ FineOff
    /\ SolarOff
    /\ LaiOff
    /\ tpc = "patch"
    /\ runTime \in PatchTimes
    /\ simpleControl = NoObject
    /\ plantModel = NoObject
    /\ \E kind \in PatchKinds :
          coupledPatch = [constructed |-> TRUE, kind |-> kind,
                          qrNbr |-> Zero, qsNbr |-> Zero,
                          timeOfLastRadUpdate |-> -1,
                          calls |-> 0, refreshed |-> FALSE,
                          fetched |-> Zero]

\* int(time.value()/deltaT_): the quotient with its fraction cut off
truncInt(value, deltaT_) ==
    IF value >= 0 THEN value \div deltaT_ ELSE -((-value) \div deltaT_)

\* time.value()/deltaT_ - moduloTest < SMALL, for whole numbers of seconds
moduloTest(value, deltaT_) == value - truncInt(value, deltaT_) * deltaT_ <= 0

\* the part of updateCoeffs() about qrNbr, qsNbr and timeOfLastRadUpdate
updateCoeffs ==
    /\ tpc = "patch"
    /\ coupledPatch.calls < MaxUpdates
    /\ \E nbr \in NbrFluxes :
          LET value == runTime.value
              last == coupledPatch.timeOfLastRadUpdate
              firstIter == moduloTest(value, runTime.deltaT) /\ last # value
              radUpdateNow == firstIter \/ value - last >= RadUpdatePeriod
              hasQs == coupledPatch.kind.qsNbrName_ # "none"
              qsRead == IF hasQs THEN nbr.qs ELSE coupledPatch.qsNbr
              called == [coupledPatch EXCEPT !.calls = @ + 1,
                                             !.refreshed = radUpdateNow]
          IN  coupledPatch' =
                  IF ~radUpdateNow THEN called
                  ELSE IF coupledPatch.kind.grassCovered
                  THEN [called EXCEPT !.timeOfLastRadUpdate = value,
                                      !.fetched = qsRead,
                                      !.qrNbr = nbr.grassQr,
                                      !.qsNbr = RMul(qsRead, GrassFactor)]
                  ELSE [called EXCEPT !.timeOfLastRadUpdate = value,
                                      !.fetched = qsRead,
                                      !.qrNbr = nbr.qr,
                                      !.qsNbr = qsRead]
    /\ UNCHANGED <<outsideTime, tpc, runTime, simpleControl, plantModel>>

NextPatch ==
    \/ updateCoeffs
    \/ runTimeLoop

SpecPatch == InitPatch /\ [][NextPatch]_vars

\* a step that is a call of updateCoeffs()
UpdateCalled == coupledPatch'.calls = coupledPatch.calls + 1

\* the fluxes and the time of the last update are as before the call
FluxesKept ==
    /\ coupledPatch'.qrNbr = coupledPatch.qrNbr
    /\ coupledPatch'.qsNbr = coupledPatch.qsNbr
    /\ coupledPatch'.timeOfLastRadUpdate = coupledPatch.timeOfLastRadUpdate

\* the call is the first at a time value that is a multiple of deltaT, or
\* 600 s have passed since the last update
RefreshDue ==
    \/ /\ runTime.value % runTime.deltaT = 0
       /\ coupledPatch.timeOfLastRadUpdate # runTime.value
    \/ runTime.value - coupledPatch.timeOfLastRadUpdate >= RadUpdatePeriod

\* C26: the fluxes are refreshed at most once per time value and only when
\* the call is the first at a multiple of deltaT or 600 s have passed; every
\* other call keeps qrNbr, qsNbr and timeOfLastRadUpdate; on a grass patch
\* the attenuation is applied once to the flux read at the refresh
C26_RefreshOncePerTimeValue ==
    [][UpdateCalled =>
          /\ coupledPatch'.refreshed =>
                /\ RefreshDue
                /\ coupledPatch.timeOfLastRadUpdate # runTime.value
                /\ coupledPatch.kind.grassCovered =>
                      coupledPatch'.qsNbr =
                          RMul(coupledPatch'.fetched, GrassFactor)
          /\ ~coupledPatch'.refreshed => FluxesKept]_vars


\* ---------------------------------------------------------------------
\* directAndDiffuse::initialise and "Scatter q and fill qs" of
\* directAndDiffuse::calculate, on one process

\* the patches of the mesh of the process
MaxPatches == 2

\* the fine faces and the agglomeration of a patch: one face, or two faces
\* that are joined, split, named in descending order, or joined under id 1
\* with id 0 unused and the unassigned entry of the patch-face map free
PatchShapes ==
    {[agglom |-> Agglom("joined", 1),
      coarsePatchFace |-> patchFaceMap(Agglom("joined", 1), Wild)]}
    \cup {[agglom |-> Agglom(pattern, 2),
           coarsePatchFace |-> patchFaceMap(Agglom(pattern, 2), unassigned)] :
             pattern \in AgglomPatterns, unassigned \in {Wild, 0, 1}}

\* a patch: whether its qs is fixedValue, whether it is a wall, its shape
MeshPatches ==
    [fixedValue : {TRUE}, wall : BOOLEAN, shape : PatchShapes]
    \cup [fixedValue : {FALSE}, wall : BOOLEAN,
          shape : {CHOOSE one \in PatchShapes : Size(one.agglom) = 1}]

\* the cases: the patches, the coarse faces of the processes below this one
\* (wall faces of one fine face each) and the bracket of the time stamps
PatchCases ==
    UNION {[constructed : {TRUE},
            patches : [0..(n - 1) -> MeshPatches],
            lower : 0..1,
            b : [lo : {0}, hi : {1}, hi_fraction : {Zero, Rat(1, 2)}]] :
           n \in 1..MaxPatches}

nPatches == Size(patchCase.patches)

\* patches[patchI].size() and coarsePatches[patchI].size()
fineSize(patchI) == Size(patchCase.patches[patchI].shape.agglom)

coarseSize(patchI) == coarsePatchSize(patchCase.patches[patchI].shape.agglom)

\* the constructor: selectedPatches_(mesh_.boundary().size(), -1),
\* wallPatchOrNot_(mesh_.boundary().size(), 0) and the counters at 0
InitSolar ==
    /\ RadOff
    /\ SunOff
    /\ RayOff
    /\ VegOff
    /\ FineOff
    /\ TimeOff
    /\ LaiOff
    /\ patchCase \in PatchCases
    /\ dd = [constructed |-> TRUE, pc |-> "constructed",
             selectedPatches_ |-> [i \in 0..(nPatches - 1) |-> -1],
             wallPatchOrNot_ |-> [i \in 0..(nPatches - 1) |-> 0],
             nLocalCoarseFaces_ |-> 0,
             nLocalWallCoarseFaces_ |-> 0,
             nLocalFineFaces_ |-> 0,
             qsBf |-> EmptyList, nWrites |-> EmptyList,
             globCoarseId |-> 0, overrun |-> FALSE]

\* the loop `forAll(qsp, patchI)` of initialise() up to patch n
RECURSIVE selectPatches(_)
selectPatches(n) ==
    IF n = 0 THEN [object |-> dd, count |-> 0]
    ELSE LET before == selectPatches(n - 1)
             patchI == n - 1
             o == before.object
             count == before.count
             patch == patchCase.patches[patchI]
         IN  IF ~patch.fixedValue THEN before
             ELSE [object |->
                      [o EXCEPT
                          !.selectedPatches_[count] = patchI,
                          !.nLocalCoarseFaces_ = @ + coarseSize(patchI),
                          !.wallPatchOrNot_[count] =
                              IF patch.wall THEN 1 ELSE @,
                          !.nLocalWallCoarseFaces_ =
                              IF patch.wall THEN @ + coarseSize(patchI) ELSE @,
                          !.nLocalFineFaces_ =
                              IF patch.wall THEN @ + fineSize(patchI) ELSE @],
                   count |-> count + 1]

\* List::resize(n) to a size that is not larger
resize(list, n) == [i \in 0..(n - 1) |-> list[i]]

\* initialise(): `selectedPatches_.resize(count--)` resizes to count and
\* takes one off count, so `wallPatchOrNot_.resize(count--)` resizes to
\* count - 1; a List of negative size is a fatal error
initialisePatches ==
    /\ patchCase # NoObject
    /\ dd.pc = "constructed"
    /\ LET selected == selectPatches(nPatches)
           o == selected.object
           count == selected.count
       IN  IF count - 1 < 0
           THEN dd' = [o EXCEPT !.pc = "fatal",
                                !.selectedPatches_ = resize(@, count)]
           ELSE dd' = [o EXCEPT !.pc = "initialised",
                                !.selectedPatches_ = resize(@, count),
                                !.wallPatchOrNot_ = resize(@, count - 1)]
    /\ UNCHANGED <<outsideSolar, patchCase>>

\* the patches whose qs is fixedValue
FixedValuePatches ==
    {patchI \in 0..(nPatches - 1) : patchCase.patches[patchI].fixedValue}

\* C30: after initialise() selectedPatches_ and wallPatchOrNot_ have the
\* same length, the number of fixedValue patches; selectedPatches_ holds
\* those patch indices ascending without a -1; wallPatchOrNot_[k] is 1
\* exactly when patch selectedPatches_[k] is a wall patch
C30_SelectedAndWallListsAgree ==
    dd # NoObject /\ dd.pc \in {"initialised", "fatal"} =>
        /\ dd.pc = "initialised"
        /\ Size(dd.selectedPatches_) = Cardinality(FixedValuePatches)
        /\ Size(dd.wallPatchOrNot_) = Cardinality(FixedValuePatches)
        /\ {dd.selectedPatches_[k] : k \in DOMAIN dd.selectedPatches_}
               = FixedValuePatches
        /\ \A k \in DOMAIN dd.selectedPatches_ :
              /\ k > 0 => dd.selectedPatches_[k - 1] < dd.selectedPatches_[k]
              /\ k \in DOMAIN dd.wallPatchOrNot_
              /\ dd.wallPatchOrNot_[k] = 1 <=>
                     patchCase.patches[dd.selectedPatches_[k]].wall


\* the global list sizes: the coarse faces and the wall fine faces of the
\* processes below and of this process
totalCoarse == patchCase.lower + dd.nLocalCoarseFaces_

totalFine == patchCase.lower + dd.nLocalFineFaces_

\* the solved q, the albedo A and the two coefficient tables of the
\* generator, by global face and time stamp
qSolved == [g \in 0..(totalCoarse - 1) |-> Rat(100 * (g + 1), 1)]

albedo == [g \in 0..(totalCoarse - 1) |-> Rat(1, g + 2)]

sunViewCoeffTable ==
    [v \in 0..1 |-> [g \in 0..(totalCoarse - 1) |-> Rat(4 * v + 2 * g + 1, 1)]]

solarLoadFineFacesTable ==
    [v \in 0..1 |-> [g \in 0..(totalFine - 1) |-> Rat(3 * v + 5 * g + 2, 1)]]

\* qsp[faceI] of a fine face: q[globalCoarse], and on a wall patch minus the
\* interpolated coarse coefficient and plus the interpolated fine one, both
\* times (1 - A[globalCoarse]); NaN when a list is read behind its end
fineFlux(wall, globalCoarse, globalFine) ==
    IF globalCoarse \notin DOMAIN qSolved THEN NaN
    ELSE IF ~wall THEN qSolved[globalCoarse]
    ELSE IF globalFine \notin DOMAIN solarLoadFineFacesTable[0] THEN NaN
    ELSE LET absorbed == RSub(One, albedo[globalCoarse])
             sunCoarse == Interpolate(sunViewCoeffTable, patchCase.b,
                                      globalCoarse)
             sunFine == Interpolate(solarLoadFineFacesTable, patchCase.b,
                                    globalFine)
         IN  RAdd(RSub(qSolved[globalCoarse], RMul(sunCoarse, absorbed)),
                  RMul(sunFine, absorbed))

\* the rounds `forAll(coarseToFine, coarseI)` of a patch that name fine
\* face faceI; none for an entry of the patch-face map that is no id
roundsOn(patchID, faceI) ==
    LET shape == patchCase.patches[patchID].shape
    IN  {coarseI \in DOMAIN shape.coarsePatchFace :
            /\ shape.coarsePatchFace[coarseI] # Wild
            /\ faceI \in coarseToFine(shape.agglom,
                                      shape.coarsePatchFace[coarseI])}

\* globCoarseId and fineFaceNo when the loop `forAll(selectedPatches_, i)`
\* reaches i: one round per agglomeration id of the patches before, and the
\* sizes of the wall patches before
RECURSIVE countersAt(_)
countersAt(i) ==
    IF i = 0 THEN [globCoarseId |-> 0, fineFaceNo |-> 0]
    ELSE LET before == countersAt(i - 1)
             patchID == dd.selectedPatches_[i - 1]
             patch == patchCase.patches[patchID]
         IN  [globCoarseId |-> before.globCoarseId
                                  + Size(patch.shape.coarsePatchFace),
              fineFaceNo |-> before.fineFaceNo
                                + IF patch.wall THEN fineSize(patchID) ELSE 0]

\* a round that indexes coarseToFine with an entry that is no id of it
WildRound ==
    \E i \in DOMAIN dd.selectedPatches_ :
        \E coarseI \in DOMAIN
              patchCase.patches[dd.selectedPatches_[i]].shape.coarsePatchFace :
            patchCase.patches[dd.selectedPatches_[i]].shape
                .coarsePatchFace[coarseI] = Wild

\* "Scatter q and fill qs": every fine face of every selected patch gets
\* the flux of the last round that names it; past the end of a list the
\* process goes on with what it read or is ended by the system
fillQs ==
    /\ patchCase # NoObject
    /\ dd.pc = "initialised"
    /\ LET qs == [i \in DOMAIN dd.selectedPatches_ |->
                    LET patchID == dd.selectedPatches_[i]
                        at == countersAt(i)
                    IN  [faceI \in 0..(fineSize(patchID) - 1) |->
                            LET rounds == roundsOn(patchID, faceI)
                                coarseI == CHOOSE r \in rounds :
                                               \A o \in rounds : o <= r
                            IN  IF rounds = {} THEN Zero
                                ELSE fineFlux(
                                       patchCase.patches[patchID].wall,
                                       patchCase.lower + at.globCoarseId
                                           + coarseI,
                                       patchCase.lower + at.fineFaceNo
                                           + faceI)]]
           writes == [i \in DOMAIN dd.selectedPatches_ |->
                        [faceI \in 0..(fineSize(dd.selectedPatches_[i]) - 1)
                            |-> Cardinality(roundsOn(dd.selectedPatches_[i],
                                                     faceI))]]
           behind == WildRound
                       \/ \E i \in DOMAIN qs : \E faceI \in DOMAIN qs[i] :
                              IsNaN(qs[i][faceI])
       IN  \E next \in IF behind THEN {"done", "crashed"} ELSE {"done"} :
              dd' = [dd EXCEPT
                        !.pc = next,
                        !.qsBf = qs,
                        !.nWrites = writes,
                        !.globCoarseId =
                            countersAt(Size(dd.selectedPatches_)).globCoarseId,
                        !.overrun = behind]
    /\ UNCHANGED <<outsideSolar, patchCase>>

NextSolar ==
    \/ initialisePatches
    \/ fillQs

SpecSolar == InitSolar /\ [][NextSolar]_vars

\* the coarse faces of the selected patches before the i-th, and the fine
\* faces of the wall patches among them
RECURSIVE facesBefore(_)
facesBefore(i) ==
    IF i = 0 THEN [coarse |-> 0, fine |-> 0]
    ELSE LET before == facesBefore(i - 1)
             patchID == dd.selectedPatches_[i - 1]
         IN  [coarse |-> before.coarse + coarseSize(patchID),
              fine |-> before.fine
                          + IF patchCase.patches[patchID].wall
                            THEN fineSize(patchID) ELSE 0]

\* the place of the coarse face of fine face faceI in its coarse patch
coarseFaceIn(patchID, faceI) ==
    LET agglom == patchCase.patches[patchID].shape.agglom
        seen == FirstSeen(agglom, Size(agglom))
    IN  (CHOOSE c \in DOMAIN seen : seen[c] = agglom[faceI]) - 1

\* C21: a fine face on a selected wall patch holds q[coarse] minus
\* (1 - A[coarse]) times the interpolated sunViewCoeff of its own coarse
\* element plus (1 - A[coarse]) times the interpolated solarLoadFineFaces
\* value of the fine face itself; on a selected patch that is no wall it
\* holds exactly q[coarse]
C21_FineFluxOfOwnElement ==
    dd # NoObject /\ dd.pc \in {"done", "crashed"} =>
        \A i \in DOMAIN dd.selectedPatches_ :
            \A faceI \in 0..(fineSize(dd.selectedPatches_[i]) - 1) :
                LET patchID == dd.selectedPatches_[i]
                    coarse == patchCase.lower + facesBefore(i).coarse
                                  + coarseFaceIn(patchID, faceI)
                    fine == patchCase.lower + facesBefore(i).fine + faceI
                    absorbed == RSub(One, albedo[coarse])
                IN  dd.qsBf[i][faceI] =
                        IF patchCase.patches[patchID].wall
                        THEN RAdd(RSub(qSolved[coarse],
                                       RMul(absorbed,
                                            Interpolate(sunViewCoeffTable,
                                                        patchCase.b, coarse))),
                                  RMul(absorbed,
                                       Interpolate(solarLoadFineFacesTable,
                                                   patchCase.b, fine)))
                        ELSE qSolved[coarse]

(***************************************************************************)
(* calcLAI: the trilinear interpolation interp3D on a cartesian grid, the  *)
(* interpolation onto the rotated grid and the update of LAI for the mesh  *)
(* cells and of kcLAIboundary for the coarse faces of one sun direction.   *)
(* Coordinates are counted in half grid steps dp/2 from the minimum point  *)
(* of the grid that is interpolated (pmin or pminRot).                     *)
(***************************************************************************)

\* largest extent of the vegetation bounding box along one axis, in steps
MaxExtent == 1

\* `pmin -= 5*dp; pmax += 5*dp`: the grid reaches five steps further
Margin == 5

\* `LAI[cellI] = 1000`, `kcLAIboundary[k] = 1000`
Saturated == 1000

\* the extinction coefficient, lookupOrDefault("kc", coeffs, 0.5)
kc == Rat(1, 2)

\* `nx = ceil((pmax.x()-pmin.x()) / dp.x()) + 1` for a bounding box of
\* `extent` steps with its margins
nodes(extent) == extent + 2 * Margin + 1

\* `pmax = max(pmax, ptemp)` over the nodes: the last node of the axis, as
\* pmin + (n - 1) * dp is not below the pmax the loop starts with
pmaxOf(n) == 2 * (n - 1)

\* the grids: nx, ny, nz
Grids ==
    {<<nodes(ex), nodes(ey), nodes(ez)>> :
        ex \in 0..MaxExtent, ey \in 0..MaxExtent, ez \in 0..MaxExtent}

\* positions along an axis of n nodes: the first node, the middle of the
\* first step, the middle of the last step, the last node
AxisPositions(n) == {0, 1, pmaxOf(n) - 1, pmaxOf(n)}

\* the points: also half a step beyond the last node in x, and half a
\* step and one and a half steps below the first node in z
Points(n) ==
    {<<x, y, z>> : x \in AxisPositions(n[1]) \cup {pmaxOf(n[1]) + 1},
                   y \in AxisPositions(n[2]),
                   z \in AxisPositions(n[3]) \cup {-1, -3}}

\* a node of the rotated grid taken back to the original frame ("node"),
\* the centre of a mesh cell ("cell") or of a coarse face ("face") in the
\* rotated frame; LAD of the cell; whether findLine reports a hit between
\* the point and the edge of the domain towards the sun
MakeLaiCase(kind, n, ptemp, LAD, hit) ==
    [constructed |-> TRUE, kind |-> kind, n |-> n, ptemp |-> ptemp,
     LAD |-> LAD, hit |-> hit]

\* `LADInterpRot.setSize(.., zero)`, `scalarList LAI(nMeshCells, 0.0)`,
\* `kcLAIboundary.setSize(vegNCoarseFacesAll, 0.0)`
InitLai ==
    /\ RadOff
    /\ SunOff
    /\ RayOff
    /\ VegOff
    /\ FineOff
    /\ TimeOff
    /\ SolarOff
    /\ \E n \in Grids : \E ptemp \in Points(n) :
          \/ laiCase = MakeLaiCase("node", n, ptemp, Zero, FALSE)
          \/ \E LAD \in {Zero, One} : \E hit \in BOOLEAN :
                laiCase = MakeLaiCase("cell", n, ptemp, LAD, hit)
          \/ \E hit \in BOOLEAN :
                laiCase = MakeLaiCase("face", n, ptemp, Zero, hit)
    /\ lai = [constructed |-> TRUE, pc |-> "ready", LADInterpRot |-> Zero,
              LAI |-> Zero, kcLAIboundary |-> Zero, reads |-> {}]

\* the number of values of the grid, nx*ny*nz
gridSize(n) == n[1] * n[2] * n[3]

\* the field on the grid (LADInterp or LAIInterpRot)
valInterp(idx) == Rat(idx % 4, 1)

\* what a read behind the end of the field can return
BehindTheEnd == {Rat(9, 1), NaN}

\* the body of interp3D for the cell <<i0, j0, k0>>: the eight indices,
\* the three weights and the three interpolations
trilinear(ptemp, n, cell, behind) ==
    LET nx == n[1]
        ny == n[2]
        i0 == cell[1]
        j0 == cell[2]
        k0 == cell[3]
        i000 == (nx * ny) * k0 + j0 * nx + i0
        i100 == (nx * ny) * k0 + j0 * nx + i0 + 1
        i010 == (nx * ny) * k0 + (j0 + 1) * nx + i0
        i110 == (nx * ny) * k0 + (j0 + 1) * nx + i0 + 1
        i001 == (nx * ny) * (k0 + 1) + j0 * nx + i0
        i101 == (nx * ny) * (k0 + 1) + j0 * nx + i0 + 1
        i011 == (nx * ny) * (k0 + 1) + (j0 + 1) * nx + i0
        i111 == (nx * ny) * (k0 + 1) + (j0 + 1) * nx + i0 + 1
        xd == Rat(ptemp[1] - 2 * i0, 2)
        yd == Rat(ptemp[2] - 2 * j0, 2)
        zd == Rat(ptemp[3] - 2 * k0, 2)
        val(idx) == IF idx \in 0..(gridSize(n) - 1) THEN valInterp(idx)
                    ELSE behind
        mix(a, b, w) == RAdd(RMul(a, RSub(One, w)), RMul(b, w))
        c00 == mix(val(i000), val(i100), xd)
        c01 == mix(val(i001), val(i101), xd)
        c10 == mix(val(i010), val(i110), xd)
        c11 == mix(val(i011), val(i111), xd)
        c0 == mix(c00, c10, yd)
        c1 == mix(c01, c11, yd)
    IN  [value |-> mix(c0, c1, zd),
         reads |-> {i000, i100, i010, i110, i001, i101, i011, i111}]

\* `i0 = floor(xp/dp.x()); j0 = floor(yp/dp.y());
\*  k0 = max(0, floor(zp/dp.z()))`
lowerIndex(ptemp, n) ==
    <<ptemp[1] \div 2,
      ptemp[2] \div 2,
      IF ptemp[3] \div 2 > 0 THEN ptemp[3] \div 2 ELSE 0>>

\* interp3D(ptemp, valInterp, nx, ny, pmin, dp)
interp3D(ptemp, n, behind) ==
    trilinear(ptemp, n, lowerIndex(ptemp, n), behind)

\* a read behind the end of the field
readsBehind(reads, n) == \E idx \in reads : idx >= gridSize(n)

\* the outcomes a build can produce for one call of interp3D: the value
\* with whatever lies behind the end of the field, or, when an index lies
\* behind the end, the end of the program
interpOutcomes(ptemp, n) ==
    LET results == {interp3D(ptemp, n, behind) : behind \in BehindTheEnd}
        all == {[value |-> r.value, reads |-> r.reads, outcome |-> o] :
                   r \in results, o \in {"read", "abort"}}
    IN  {r \in all : r.outcome = "abort" => readsBehind(r.reads, n)}

\* the test of interpcartesianToRotCartesian on the point in the original
\* frame: inside the box [pmin, pmax], both ends included
insideSourceBox(ptemp, n) ==
    /\ ptemp[1] >= 0 /\ ptemp[1] <= pmaxOf(n[1])
    /\ ptemp[2] >= 0 /\ ptemp[2] <= pmaxOf(n[2])
    /\ ptemp[3] >= 0 /\ ptemp[3] <= pmaxOf(n[3])

\* the test on a cell centre or a face centre in the rotated frame: x and
\* y inside [pminRot, pmaxRot], z not above pmaxRot.z() (a cell centre is
\* never below pmeshMinRot.z(), the lowest cell centre)
insideRotBox(ptemp, n) ==
    /\ ptemp[1] >= 0 /\ ptemp[1] <= pmaxOf(n[1])
    /\ ptemp[2] >= 0 /\ ptemp[2] <= pmaxOf(n[2])
    /\ ptemp[3] <= pmaxOf(n[3])

\* interpcartesianToRotCartesian for one node of the rotated grid
interpcartesianToRotCartesian ==
    /\ laiCase # NoObject
    /\ laiCase.kind = "node"
    /\ lai.pc = "ready"
    /\ IF insideSourceBox(laiCase.ptemp, laiCase.n)
       THEN \E r \in interpOutcomes(laiCase.ptemp, laiCase.n) :
               lai' = [lai EXCEPT
                          !.pc = IF r.outcome = "abort" THEN "aborted"
                                 ELSE "done",
                          !.reads = r.reads,
                          !.LADInterpRot = IF r.outcome = "abort" THEN @
                                           ELSE r.value]
       ELSE lai' = [lai EXCEPT !.pc = "done"]
    /\ UNCHANGED <<outsideLai, laiCase>>

\* main: the update of LAI for one mesh cell
updateCellLAI ==
    /\ laiCase # NoObject
    /\ laiCase.kind = "cell"
    /\ lai.pc = "ready"
    /\ IF ~insideRotBox(laiCase.ptemp, laiCase.n)
       THEN lai' = [lai EXCEPT !.pc = "done"]
       ELSE IF laiCase.hit
       THEN lai' = [lai EXCEPT
                       !.pc = "done",
                       !.LAI = IF RGt(laiCase.LAD, RMul(Rat(10, 1), small))
                               THEN Rat(Saturated, 1) ELSE @]
       ELSE \E r \in interpOutcomes(laiCase.ptemp, laiCase.n) :
               lai' = [lai EXCEPT
                          !.pc = IF r.outcome = "abort" THEN "aborted"
                                 ELSE "done",
                          !.reads = r.reads,
                          !.LAI = IF r.outcome = "abort" THEN @
                                  ELSE r.value]
    /\ UNCHANGED <<outsideLai, laiCase>>

\* main: the update of kcLAIboundary for one coarse face
updateBoundaryLAI ==
    /\ laiCase # NoObject
    /\ laiCase.kind = "face"
    /\ lai.pc = "ready"
    /\ IF ~insideRotBox(laiCase.ptemp, laiCase.n)
       THEN lai' = [lai EXCEPT !.pc = "done"]
       ELSE IF laiCase.hit
       THEN lai' = [lai EXCEPT !.pc = "done",
                               !.kcLAIboundary = Rat(Saturated, 1)]
       ELSE \E r \in interpOutcomes(laiCase.ptemp, laiCase.n) :
               lai' = [lai EXCEPT
                          !.pc = IF r.outcome = "abort" THEN "aborted"
                                 ELSE "done",
                          !.reads = r.reads,
                          !.kcLAIboundary = IF r.outcome = "abort" THEN @
                                            ELSE RMul(kc, r.value)]
    /\ UNCHANGED <<outsideLai, laiCase>>

NextLai ==
    \/ interpcartesianToRotCartesian
    \/ updateCellLAI
    \/ updateBoundaryLAI

SpecLai == InitLai /\ [][NextLai]_vars

\* C29: interp3D reads only indices in 0..nx*ny*nz-1, for every point of
\* the box [pmin, pmax] of the source grid, the points on its maximum
\* faces included, and for every cell or face centre that passes the test
\* of the rotated bounding box, also with z below the rotated grid
C29_InterpolationReadsInRange ==
    lai # NoObject =>
        \A idx \in lai.reads : idx \in 0..(gridSize(laiCase.n) - 1)

\* the step of the grid that holds the point: the last step for a point on
\* a maximum face, the first step for a point below the grid
stepOf(ptemp, n) ==
    <<IF ptemp[1] \div 2 > n[1] - 2 THEN n[1] - 2 ELSE ptemp[1] \div 2,
      IF ptemp[2] \div 2 > n[2] - 2 THEN n[2] - 2 ELSE ptemp[2] \div 2,
      IF ptemp[3] \div 2 > n[3] - 2 THEN n[3] - 2
      ELSE IF ptemp[3] \div 2 > 0 THEN ptemp[3] \div 2 ELSE 0>>

\* the value of the field at the point: the interpolation in the step of
\* the grid that holds the point
gridValue(ptemp, n) == trilinear(ptemp, n, stepOf(ptemp, n), NaN).value

\* C22: for a sun direction above the horizon every mesh cell and every
\* coarse face inside the vegetation bounding box whose ray towards the
\* sun is obstructed has LAI (kcLAIboundary for a face) 1000, and every
\* one whose ray is not obstructed has the value interpolated from the
\* grid of the integrated LAI
C22_ObstructedSaturatedElseInterpolated ==
    /\ lai # NoObject
    /\ lai.pc \in {"done", "aborted"}
    /\ laiCase.kind \in {"cell", "face"}
    /\ insideRotBox(laiCase.ptemp, laiCase.n)
    => LET value == IF laiCase.kind = "cell" THEN lai.LAI
                    ELSE lai.kcLAIboundary
           scale == IF laiCase.kind = "cell" THEN One ELSE kc
       IN  IF laiCase.hit THEN value = Rat(Saturated, 1)
           ELSE /\ lai.pc = "done"
                /\ value = RMul(scale,
                                gridValue(laiCase.ptemp, laiCase.n))

====
